---- MODULE Spec2Model ----
(***************************************************************************)
(* A model of the skipper archive deployer: the newc cpio decoder          *)
(* (cpio.rs), the CRC-32 checksum engine and table (checksum.rs), the      *)
(* manifest (manifest.rs, json.rs), the image payload writer (payload.rs)  *)
(* and the orchestrator Archive::new / Archive::deploy (archive.rs).       *)
(*                                                                         *)
(* Bytes are naturals 0..255, strings and buffers are sequences of bytes.  *)
(* A u32 that needs all 32 bits (a CRC) is a pair <<hi, lo>> of 16-bit     *)
(* halves.  Option values are <<>> (None) and <<v>> (Some(v)).             *)
(***************************************************************************)
EXTENDS Integers, Sequences, FiniteSets, TLC

(***************************************************************************)
(* Bounds of the model.                                                    *)
(***************************************************************************)
\* length of the block buffer of deploy_payload; the program uses 2048
\* (payload.rs:107), the model a short buffer so that payloads below, at
\* and above one block, and at and above two blocks, stay small
BlockLen == 4
\* most payload entries in an archive, most descriptors in a manifest
MaxEntries == 2
MaxDescs == 2
\* longest buffer a caller hands to CpioFile::read when driving the decoder
MaxReq == 3
\* longest byte sequence fed to a Checksum on its own
MaxLen == 4
\* largest image size and longest chunk when driving an ImagePayload on its own
MaxImage == 4
MaxChunk == 3
\* most bytes a source that does not fill its read requests returns per read
ShortLen == 3
\* the length of a chunk of the HttpReader: the program uses CHUNK_SIZE = 1024
\* (http_reader.rs:21), the model a short chunk so that resources below, at
\* and above one chunk stay small
ChunkLen == 3

(***************************************************************************)
(* Program constants.                                                      *)
(***************************************************************************)
HEADER_SIZE == 110
NAME_BUF_LEN == 256
TEXT_BUF_LEN == 4096
MAGIC_NUMBER == <<48, 55, 48, 55, 48, 49>>                                  \* 070701
TRAILER == <<84, 82, 65, 73, 76, 69, 82, 33, 33, 33>>                       \* TRAILER!!!
CHECKSUMS_FILENAME == <<99, 104, 101, 99, 107, 115, 117, 109, 115>>         \* checksums
MANIFEST_FILENAME == <<109, 97, 110, 105, 102, 101, 115, 116, 46, 106, 115, 111, 110, 99>> \* manifest.jsonc

None == <<>>
Some(v) == <<v>>
Min(a, b) == IF a < b THEN a ELSE b

(***************************************************************************)
(* CRC-32 (crc32fast::Hasher): reflected polynomial EDB88320, register     *)
(* preset to FFFFFFFF and inverted on finalize.                            *)
(***************************************************************************)
XorBit(a, b) == ((a % 2) + (b % 2)) % 2
Xor4 ==
    [a \in 0..15 |-> [b \in 0..15 |->
        XorBit(a, b) + (2 * XorBit(a \div 2, b \div 2))
            + (4 * XorBit(a \div 4, b \div 4)) + (8 * XorBit(a \div 8, b \div 8))]]

RECURSIVE Xor(_, _)
Xor(a, b) ==
    IF a = 0 THEN b
    ELSE IF b = 0 THEN a
    ELSE Xor4[a % 16][b % 16] + (16 * Xor(a \div 16, b \div 16))

Xor32(p, q) == <<Xor(p[1], q[1]), Xor(p[2], q[2])>>
Shr1(p) == <<p[1] \div 2, (p[2] \div 2) + ((p[1] % 2) * 32768)>>
Shr8(p) == <<p[1] \div 256, (p[2] \div 256) + ((p[1] % 256) * 256)>>
Poly == <<60856, 33568>>
Ones == <<65535, 65535>>

RECURSIVE CrcBits(_, _)
CrcBits(c, k) ==
    IF k = 0 THEN c
    ELSE CrcBits(Xor32(Shr1(c), IF c[2] % 2 = 1 THEN Poly ELSE <<0, 0>>), k - 1)

CrcTable == [i \in 0..255 |-> CrcBits(<<0, i>>, 8)]

\* one byte fed to the register
HasherStep(c, b) == Xor32(CrcTable[Xor(c[2] % 256, b)], Shr8(c))

\* the register after the bytes buf[lo..hi] have been fed to it in order:
\* first half, then second half.  A register is never negative; testing it
\* makes TLC evaluate c before going on, which keeps the evaluation shallow
RECURSIVE HasherRange(_, _, _, _)
HasherRange(c, buf, lo, hi) ==
    IF c[1] < 0 \/ lo > hi THEN c
    ELSE IF lo = hi THEN HasherStep(c, buf[lo])
    ELSE HasherRange(HasherRange(c, buf, lo, (lo + hi) \div 2), buf, ((lo + hi) \div 2) + 1, hi)

HasherUpdate(c, buf) == HasherRange(c, buf, 1, Len(buf))
HasherNew == Ones
HasherFinalize(c) == Xor32(c, Ones)

(***************************************************************************)
(* Checksum (checksum.rs): final_value and hasher are Options.  An unwrap  *)
(* of None is a panic, which the operators report as the value Panic.      *)
(***************************************************************************)
Panic == [panic |-> TRUE]

new_hashable == [final_value |-> None, hasher |-> Some(HasherNew)]

\* a faulty update: every call starts from a fresh hasher
update_restart(ck, buf) ==
    IF ck = Panic \/ ck.hasher = None THEN Panic
    ELSE [ck EXCEPT !.hasher = Some(HasherUpdate(HasherNew, buf))]

update(ck, buf) ==
    IF ck = Panic \/ ck.hasher = None THEN Panic
    ELSE [ck EXCEPT !.hasher = Some(HasherUpdate(ck.hasher[1], buf))]

finalise(ck) ==
    IF ck = Panic \/ ck.hasher = None THEN Panic
    ELSE [final_value |-> Some(HasherFinalize(ck.hasher[1])), hasher |-> None]

\* a faulty comparison: any two final values are equal
checksum_eq_always(a, b) ==
    IF a = Panic \/ b = Panic THEN "panic"
    ELSE IF a.final_value = None \/ b.final_value = None THEN "panic"
    ELSE "eq"

\* PartialEq: "eq", "ne", or "panic" when either side has no final value
checksum_eq(a, b) ==
    IF a = Panic \/ b = Panic THEN "panic"
    ELSE IF a.final_value = None \/ b.final_value = None THEN "panic"
    ELSE IF a.final_value[1] = b.final_value[1] THEN "eq" ELSE "ne"

(***************************************************************************)
(* Hexadecimal text.  u32::from_str_radix(s, 16) takes an optional '+',    *)
(* then one or more hex digits of either case, and fails on overflow.      *)
(***************************************************************************)
\* a faulty digit test: upper case digits are refused
HexDigit_lower(b) ==
    IF b >= 48 /\ b <= 57 THEN b - 48
    ELSE IF b >= 97 /\ b <= 102 THEN b - 87
    ELSE -1

HexDigit(b) ==
    IF b >= 48 /\ b <= 57 THEN b - 48
    ELSE IF b >= 65 /\ b <= 70 THEN b - 55
    ELSE IF b >= 97 /\ b <= 102 THEN b - 87
    ELSE -1

\* the digits s[i..] appended to the value v = <<hi, lo>>; <<-1, -1>> on a
\* byte that is no digit or on a value above FFFFFFFF
RECURSIVE HexDigits(_, _, _)
HexDigits(v, s, i) ==
    IF i > Len(s) THEN v
    ELSE IF HexDigit(s[i]) < 0 \/ v[1] >= 4096 THEN <<-1, -1>>
    ELSE HexDigits(<<(v[1] * 16) + (v[2] \div 4096),
                     ((v[2] % 4096) * 16) + HexDigit(s[i])>>, s, i + 1)

RadixResult(v) ==
    IF v = <<-1, -1>> THEN [ok |-> FALSE, val |-> <<0, 0>>] ELSE [ok |-> TRUE, val |-> v]

RadixDigits(digits) ==
    IF Len(digits) = 0 THEN [ok |-> FALSE, val |-> <<0, 0>>]
    ELSE RadixResult(HexDigits(<<0, 0>>, digits, 1))

from_str_radix(s) == RadixDigits(IF Len(s) > 0 /\ s[1] = 43 THEN Tail(s) ELSE s)

\* a faulty digit: the letters start one place late
UpperHex_late(d) == IF d < 10 THEN 48 + d ELSE 56 + d
UpperHex(d) == IF d < 10 THEN 48 + d ELSE 55 + d
\* format!("{:08X?}", v)
Hex8(v) ==
    [i \in 1..8 |-> UpperHex((v[IF i <= 4 THEN 1 ELSE 2] \div (16 ^ ((8 - i) % 4))) % 16)]

\* Checksum::from_str and Checksum::to_string
FromRadix(r) ==
    IF r.ok THEN [ok |-> TRUE, cksum |-> [final_value |-> Some(r.val), hasher |-> None]]
    ELSE [ok |-> FALSE, cksum |-> Panic]

from_str(s) == FromRadix(from_str_radix(s))

to_string(ck) == IF ck = Panic \/ ck.final_value = None THEN None ELSE Some(Hex8(ck.final_value[1]))

\* a u32 below 2^31 as a number
U32(v) == (v[1] * 65536) + v[2]
AsU32(n) == <<n \div 65536, n % 65536>>

(***************************************************************************)
(* The byte source and PosReader (cpio.rs).  The source holds the bytes    *)
(* stream; count bytes of it have been consumed.  A read of at most n      *)
(* bytes returns up to short bytes when short > 0 (a source that does not  *)
(* fill the request), and up to n otherwise.                               *)
(***************************************************************************)
Avail(s, c) == Len(s) - c

SourceRead(s, c, sh, n) ==
    IF sh > 0 THEN Min(Min(n, Avail(s, c)), sh) ELSE Min(n, Avail(s, c))

\* Read::read_exact through PosReader: all n bytes, or UnexpectedEof after
\* the rest of the stream has been consumed
read_exact(s, c, n) ==
    IF n <= Avail(s, c)
    THEN [ok |-> TRUE, bytes |-> SubSeq(s, c + 1, c + n), count |-> c + n]
    ELSE [ok |-> FALSE, bytes |-> <<>>, count |-> Len(s)]

\* read_hex_u32: from_utf8 and from_str_radix fail alike on a byte that is
\* no ASCII hex digit
HexOf(c, v) ==
    IF ~v.ok THEN [err |-> "ParseError", val |-> <<0, 0>>, count |-> c]
    ELSE [err |-> "", val |-> v.val, count |-> c]

HexRead(r) ==
    IF ~r.ok THEN [err |-> "IOError", val |-> <<0, 0>>, count |-> r.count]
    ELSE HexOf(r.count, from_str_radix(r.bytes))

read_hex_u32(s, c) == HexRead(read_exact(s, c, 8))

\* the thirteen fields after the magic: the values read so far, and the
\* error of the first field that fails
RECURSIVE read_fields(_, _, _)
RECURSIVE FieldRead(_, _, _)
FieldRead(s, vals, r) ==
    IF r.err # "" THEN [err |-> r.err, vals |-> vals, count |-> r.count]
    ELSE read_fields(s, r.count, Append(vals, r.val))

read_fields(s, c, vals) ==
    IF Len(vals) = 13 THEN [err |-> "", vals |-> vals, count |-> c]
    ELSE FieldRead(s, vals, read_hex_u32(s, c))

Pad4(n) == (4 - (n % 4)) % 4

NoFile == [filename |-> <<>>, filesize |-> 0]
Header(res, e, c, f, name, at) ==
    [res |-> res, err |-> e, count |-> c, file |-> f, name |-> name, magic_at |-> at]
Failed(e, c) == Header("Err", e, c, NoFile, <<>>, -1)

\* a faulty end of the header parse: the trailer is an entry like any other
HeaderEnd_any(at, filesize, filename, hpad) ==
    IF ~hpad.ok THEN Failed("IOError", hpad.count)
    ELSE Header("Some", "", hpad.count, [filename |-> filename, filesize |-> filesize],
                filename, at)

\* CpioReader::read_next_file, in the order of the code: the data pad of
\* the previous entry, the magic, the thirteen fields, the name, the
\* header pad, the trailer test.  res is "Some", "None", "Err" or "Panic"
\* (namesize 0: buf.len() - 1 underflows); name is the filename decoded
\* from the header and magic_at the position at which the magic literal
\* was read
HeaderEnd(at, filesize, filename, hpad) ==
    IF ~hpad.ok THEN Failed("IOError", hpad.count)
    ELSE IF filename = TRAILER THEN Header("None", "", hpad.count, NoFile, filename, at)
    ELSE Header("Some", "", hpad.count, [filename |-> filename, filesize |-> filesize],
                filename, at)

HeaderName(s, at, filesize, namesize, name) ==
    IF ~name.ok THEN Failed("IOError", name.count)
    ELSE IF namesize = 0 THEN Header("Panic", "", name.count, NoFile, <<>>, at)
    ELSE IF \E i \in 1..(namesize - 1) : name.bytes[i] >= 128 THEN Failed("ParseError", name.count)
    ELSE HeaderEnd(at, filesize, SubSeq(name.bytes, 1, namesize - 1),
                   read_exact(s, name.count, Pad4(HEADER_SIZE + namesize)))

\* a faulty field test: a name field of exactly NAME_BUF_LEN bytes is
\* refused
HeaderFields_tight(s, at, fields) ==
    IF fields.err # "" THEN Failed(fields.err, fields.count)
    ELSE IF fields.vals[13] # <<0, 0>> THEN Failed("FormatError", fields.count)
    ELSE IF U32(fields.vals[12]) >= NAME_BUF_LEN THEN Failed("FormatError", fields.count)
    ELSE HeaderName(s, at, U32(fields.vals[7]), U32(fields.vals[12]),
                    read_exact(s, fields.count, U32(fields.vals[12])))
HeaderFields(s, at, fields) ==
    IF fields.err # "" THEN Failed(fields.err, fields.count)
    ELSE IF fields.vals[13] # <<0, 0>> THEN Failed("FormatError", fields.count)
    ELSE IF U32(fields.vals[12]) > NAME_BUF_LEN THEN Failed("FormatError", fields.count)
    ELSE HeaderName(s, at, U32(fields.vals[7]), U32(fields.vals[12]),
                    read_exact(s, fields.count, U32(fields.vals[12])))

\* a faulty magic read: the end of the source is taken for the end of the
\* archive
HeaderMagic_eof(s, at, magic) ==
    IF ~magic.ok THEN Header("None", "", magic.count, NoFile, TRAILER, at)
    ELSE IF magic.bytes # MAGIC_NUMBER THEN Failed("FormatError", magic.count)
    ELSE HeaderFields(s, at, read_fields(s, magic.count, <<>>))
HeaderMagic(s, at, magic) ==
    IF ~magic.ok THEN Failed("IOError", magic.count)
    ELSE IF magic.bytes # MAGIC_NUMBER THEN Failed("FormatError", magic.count)
    ELSE HeaderFields(s, at, read_fields(s, magic.count, <<>>))

HeaderPad(s, pad) ==
    IF ~pad.ok THEN Failed("IOError", pad.count)
    ELSE HeaderMagic(s, pad.count, read_exact(s, pad.count, Len(MAGIC_NUMBER)))

\* a faulty read_next_file: the data pad of the previous entry is not read
read_next_file_nopad(s, c) == HeaderPad(s, read_exact(s, c, 0))

read_next_file(s, c) == HeaderPad(s, read_exact(s, c, IF c > 0 THEN Pad4(c) ELSE 0))

(***************************************************************************)
(* Text helpers: str::lines, str::split_whitespace, str::trim_start.       *)
(***************************************************************************)
SpaceBytes == {9, 10, 11, 12, 13, 32}
NotSpaceBytes == (0..255) \ SpaceBytes

\* the least index j >= i with s[j] in the set bytes, Len(s) + 1 when there
\* is none
NextAt(s, i, bytes) ==
    IF \E j \in i..Len(s) : s[j] \in bytes
    THEN CHOOSE j \in i..Len(s) : s[j] \in bytes /\ \A k \in i..(j - 1) : s[k] \notin bytes
    ELSE Len(s) + 1

StripCR(line) ==
    IF Len(line) > 0 /\ line[Len(line)] = 13 THEN SubSeq(line, 1, Len(line) - 1) ELSE line

RECURSIVE LinesFrom(_, _)
RECURSIVE LineTo(_, _, _)
LineTo(s, i, j) == <<StripCR(SubSeq(s, i, j - 1))>> \o LinesFrom(s, j + 1)
LinesFrom(s, i) == IF i > Len(s) THEN <<>> ELSE LineTo(s, i, NextAt(s, i, {10}))

lines(s) == LinesFrom(s, 1)

RECURSIVE TokensFrom(_, _)
RECURSIVE TokenTo(_, _, _)
RECURSIVE TokenAt(_, _)
TokenTo(s, k, e) == <<SubSeq(s, k, e - 1)>> \o TokensFrom(s, e)
TokenAt(s, k) == IF k > Len(s) THEN <<>> ELSE TokenTo(s, k, NextAt(s, k, SpaceBytes))
TokensFrom(s, i) == TokenAt(s, NextAt(s, i, NotSpaceBytes))

split_whitespace(s) == TokensFrom(s, 1)

StartsWithAt(s, i, lit) ==
    /\ i + Len(lit) - 1 <= Len(s)
    /\ SubSeq(s, i, i + Len(lit) - 1) = lit

RECURSIVE Concat(_)
Concat(ss) == IF ss = <<>> THEN <<>> ELSE Head(ss) \o Concat(Tail(ss))

(***************************************************************************)
(* The checksum table (checksum.rs).  The HashMap is a function from       *)
(* filename to Checksum; a later line for the same name replaces the       *)
(* earlier one.                                                            *)
(***************************************************************************)
EmptyMap == [n \in {} |-> Panic]
MapInsert(m, k, v) == [n \in (DOMAIN m) \cup {k} |-> IF n = k THEN v ELSE m[n]]

\* the loop body of parse_checksum_file for line i, whose tokens are parts:
\* the first two tokens are the filename and the checksum
RECURSIVE parse_lines(_, _, _)
RECURSIVE LineChecksum(_, _, _, _, _)
RECURSIVE LineTokens(_, _, _, _)
LineChecksum(ls, i, cksums, fname, cksum) ==
    IF ~cksum.ok THEN [ok |-> FALSE, cksums |-> EmptyMap]
    ELSE parse_lines(ls, i + 1, MapInsert(cksums, fname, cksum.cksum))

LineTokens(ls, i, cksums, parts) ==
    IF Len(parts) < 2 THEN [ok |-> FALSE, cksums |-> EmptyMap]
    ELSE LineChecksum(ls, i, cksums, parts[1], from_str(parts[2]))

parse_lines(ls, i, cksums) ==
    IF i > Len(ls) THEN [ok |-> TRUE, cksums |-> cksums]
    ELSE LineTokens(ls, i, cksums, split_whitespace(ls[i]))

parse_checksum_file(buf) == parse_lines(lines(buf), 1, EmptyMap)

\* a faulty get_checksum: the value handed out has a hasher and no final
\* value
get_checksum_hashable(cksums, filename) ==
    IF filename \in DOMAIN cksums THEN Some(new_hashable) ELSE None
get_checksum(cksums, filename) ==
    IF filename \in DOMAIN cksums
    THEN Some([final_value |-> cksums[filename].final_value, hasher |-> None])
    ELSE None

(***************************************************************************)
(* The manifest (manifest.rs, json.rs).  parse_jsonc drops the lines that  *)
(* start with // and joins the rest; serde_json then reads the object.     *)
(* The model reads the compact rendering                                   *)
(*   {"payloads":[{"type":"..","filename":"..","dest":".."},..]}           *)
(* with the keys in this order and strings without escapes, and rejects    *)
(* every other text.  PayloadType has the single variant "image", so the   *)
(* derived Deserialize fails on any other type string.                     *)
(***************************************************************************)
J_open == <<123, 34, 112, 97, 121, 108, 111, 97, 100, 115, 34, 58, 91>>     \* {"payloads":[
J_close == <<93, 125>>                                                      \* ]}
J_type == <<123, 34, 116, 121, 112, 101, 34, 58, 34>>                       \* {"type":"
J_filename == <<34, 44, 34, 102, 105, 108, 101, 110, 97, 109, 101, 34, 58, 34>> \* ","filename":"
J_dest == <<34, 44, 34, 100, 101, 115, 116, 34, 58, 34>>                    \* ","dest":"
J_end == <<34, 125>>                                                        \* "}
T_image == <<105, 109, 97, 103, 101>>                                       \* image
T_video == <<118, 105, 100, 101, 111>>                                      \* video

\* line.trim_start().starts_with("//")
IsComment(line) == StartsWithAt(line, NextAt(line, 1, NotSpaceBytes), <<47, 47>>)

strip_comments(s) == Concat(SelectSeq(lines(s), LAMBDA l : ~IsComment(l)))

\* a faulty set of variants: "video" deserialises as well
PayloadTypes_all == {T_image, T_video}
\* the variants of PayloadType by their serde names
PayloadTypes == {T_image}

\* one descriptor object starting at s[i]: the descriptor and the index
\* after it, or next = 0 when the text is not a descriptor
BadInfo == [next |-> 0, info |-> [payload_type |-> <<>>, filename |-> <<>>, dest |-> <<>>]]

InfoDest(s, type, filename, d1, d2) ==
    IF ~StartsWithAt(s, d2, J_end) THEN BadInfo
    ELSE [next |-> d2 + Len(J_end),
          info |-> [payload_type |-> type, filename |-> filename, dest |-> SubSeq(s, d1, d2 - 1)]]

InfoFilename(s, type, f1, f2) ==
    IF ~StartsWithAt(s, f2, J_dest) THEN BadInfo
    ELSE InfoDest(s, type, SubSeq(s, f1, f2 - 1),
                  f2 + Len(J_dest), NextAt(s, f2 + Len(J_dest), {34}))

InfoType(s, t1, t2) ==
    IF ~StartsWithAt(s, t2, J_filename) THEN BadInfo
    ELSE IF SubSeq(s, t1, t2 - 1) \notin PayloadTypes THEN BadInfo
    ELSE InfoFilename(s, SubSeq(s, t1, t2 - 1),
                      t2 + Len(J_filename), NextAt(s, t2 + Len(J_filename), {34}))

parse_payload_info(s, i) ==
    IF ~StartsWithAt(s, i, J_type) THEN BadInfo
    ELSE InfoType(s, i + Len(J_type), NextAt(s, i + Len(J_type), {34}))

RECURSIVE parse_payloads(_, _, _)
RECURSIVE PayloadsAfter(_, _, _)
PayloadsAfter(s, acc, p) ==
    IF p.next = 0 THEN [ok |-> FALSE, payloads |-> <<>>]
    ELSE IF StartsWithAt(s, p.next, <<44>>)
         THEN parse_payloads(s, p.next + 1, Append(acc, p.info))
    ELSE IF StartsWithAt(s, p.next, J_close) /\ p.next + Len(J_close) = Len(s) + 1
         THEN [ok |-> TRUE, payloads |-> Append(acc, p.info)]
    ELSE [ok |-> FALSE, payloads |-> <<>>]

parse_payloads(s, i, acc) == PayloadsAfter(s, acc, parse_payload_info(s, i))

from_json(s) ==
    IF ~StartsWithAt(s, 1, J_open) THEN [ok |-> FALSE, payloads |-> <<>>]
    ELSE IF s = J_open \o J_close THEN [ok |-> TRUE, payloads |-> <<>>]
    ELSE parse_payloads(s, Len(J_open) + 1, <<>>)

parse_jsonc(s) == from_json(strip_comments(s))

parse_manifest(buf) == parse_jsonc(buf)

(***************************************************************************)
(* Building an archive (skip-build/main.rs and cpio -o --format=newc).     *)
(***************************************************************************)
Zeros(n) == [i \in 1..n |-> 0]

\* the thirteen header fields of a regular file: ino, mode, uid, gid, nlink,
\* mtime, filesize, devmajor, devminor, rdevmajor, rdevminor, namesize, check
HeaderValues(filesize, namesize, check) ==
    <<1, 33188, 0, 0, 1, 0, filesize, 0, 0, 0, 0, namesize, check>>

HexFields(vals) == Concat([i \in 1..Len(vals) |-> Hex8(AsU32(vals[i]))])

\* a newc header with the given filesize, namesize and check fields, the
\* name bytes as given, and the header pad
cpio_header(name_bytes, filesize, namesize, check) ==
    MAGIC_NUMBER \o HexFields(HeaderValues(filesize, namesize, check))
        \o name_bytes \o Zeros(Pad4(HEADER_SIZE + Len(name_bytes)))

cpio_entry(name, data) ==
    cpio_header(name \o <<0>>, Len(data), Len(name) + 1, 0) \o data \o Zeros(Pad4(Len(data)))

RECURSIVE cpio_entries(_)
cpio_entries(files) ==
    IF files = <<>> THEN cpio_entry(TRAILER, <<>>)
    ELSE cpio_entry(Head(files).name, Head(files).data) \o cpio_entries(Tail(files))

generate_archive(files) == cpio_entries(files)

checksum_file(data) == finalise(update(new_hashable, data))

checksum_line(name, cksum) == name \o <<9>> \o to_string(cksum)[1] \o <<10>>

RECURSIVE build_checksum_file(_)
build_checksum_file(files) ==
    IF files = <<>> THEN <<>>
    ELSE checksum_line(Head(files).name, checksum_file(Head(files).data))
             \o build_checksum_file(Tail(files))

\* the manifest text the builder is given: a comment line and the
\* descriptors in compact JSON
RECURSIVE DescsText(_)
DescsText(descs) ==
    IF descs = <<>> THEN <<>>
    ELSE J_type \o Head(descs).payload_type \o J_filename \o Head(descs).filename
             \o J_dest \o Head(descs).dest \o J_end
             \o (IF Len(descs) > 1 THEN <<44>> ELSE <<>>) \o DescsText(Tail(descs))

ManifestText(descs) ==
    <<47, 47, 32, 109, 10>> \o J_open \o DescsText(descs) \o J_close \o <<10>>

(***************************************************************************)
(* State.                                                                  *)
(***************************************************************************)
VARIABLES
    stream,        \* the bytes of the byte source
    count,         \* PosReader.count: bytes consumed from the source
    short,         \* most bytes the source returns per read, 0: as many as asked
    pc,            \* where the caller is
    result,        \* "" while running, then "Ok", an ArchiveError or "Panic"
    checksums,     \* Archive.checksums: the ChecksumLookup map
    manifest,      \* Archive.manifest.payloads
    payload_iter,  \* Archive.payload_iter: None, or Some(index of the next descriptor)
    file,          \* the live CpioFile
    payload,       \* the ImagePayload being deployed
    buf,           \* the bytes of the last read, or the block handed to write_block
    fs,            \* the destination files: path -> bytes
    arch,          \* what the byte source was built from
    hist,          \* the calls made so far, oldest first
    got,           \* the bytes read from the live CpioFile so far
    req,           \* the buffer length of the last read of the live CpioFile, -1: none yet
    reader         \* the HttpReader

vars == <<stream, count, short, pc, result, checksums, manifest, payload_iter,
          file, payload, buf, fs, arch, hist, got, req, reader>>

\* a call: its name, the file or path it is about, a number (the position of
\* the magic for read_next_file, the length of the block for read and
\* write_block), its outcome, the source position at the call and the bytes
\* the live CpioFile had left at the call
Ev(e, name, n, res, pos, left) ==
    [ev |-> e, name |-> name, n |-> n, res |-> res, pos |-> pos, left |-> left]

\* no HttpReader: the byte source is a stream in memory
NoHttpReader ==
    [byte_pos |-> 0, content_length |-> 0, buf |-> <<>>, read_pos |-> 0, capacity |-> 0]

(***************************************************************************)
(* CpioFile (cpio.rs).                                                     *)
(***************************************************************************)
NewCpioFile(f) ==
    [filename |-> f.filename, filesize |-> f.filesize, remaining |-> f.filesize,
     cksum |-> new_hashable]

NoCpioFile == [filename |-> <<>>, filesize |-> 0, remaining |-> 0, cksum |-> new_hashable]

\* a faulty read: the bytes returned are fed to the checksum twice
FileRead_twice(f, c, bytes) ==
    [bytes |-> bytes,
     count |-> c + Len(bytes),
     file |-> [f EXCEPT !.remaining = f.remaining - Len(bytes),
                        !.cksum = update(update(f.cksum, bytes), bytes)]]
\* Read for CpioFile with a buffer of len bytes: the bytes returned, the
\* file and the source position afterwards
FileRead(f, c, bytes) ==
    [bytes |-> bytes,
     count |-> c + Len(bytes),
     file |-> [f EXCEPT !.remaining = f.remaining - Len(bytes),
                        !.cksum = update(f.cksum, bytes)]]

\* a faulty read: the request is not cut to the bytes the entry has left
CpioFile_read_unbounded(f, s, c, sh, len) ==
    FileRead(f, c, SubSeq(s, c + 1, c + SourceRead(s, c, sh, len)))

CpioFile_read(f, s, c, sh, len) ==
    FileRead(f, c, SubSeq(s, c + 1, c + SourceRead(s, c, sh, Min(len, f.remaining))))

\* CpioFile::finalise: "Ok", "ChecksumMismatchError", or "Panic" when the
\* assertion remaining == 0 or an unwrap fails
Compared(f, eq) ==
    [file |-> f,
     res |-> IF eq = "panic" THEN "Panic"
             ELSE IF eq = "ne" THEN "ChecksumMismatchError"
             ELSE "Ok"]

Finalised(f, ck, cksum_expected) == Compared([f EXCEPT !.cksum = ck], checksum_eq(ck, cksum_expected))

CpioFile_finalise(f, cksum_expected) ==
    IF f.remaining # 0 THEN [file |-> f, res |-> "Panic"]
    ELSE Finalised(f, finalise(f.cksum), cksum_expected)

(***************************************************************************)
(* ImagePayload (payload.rs).  dest_file is None or Some(path); the        *)
(* destination can be created and written.                                 *)
(***************************************************************************)
\* a faulty ImagePayload::new: the image size is the entry size rounded up
\* to the 4-byte boundary of the archive
NewImagePayload_padded(image_size, dest) ==
    [image_size |-> image_size + Pad4(image_size),
     remaining |-> image_size + Pad4(image_size), dest |-> dest, dest_file |-> None]
NewImagePayload(image_size, dest) ==
    [image_size |-> image_size, remaining |-> image_size, dest |-> dest, dest_file |-> None]

NoPayload == NewImagePayload(0, <<>>)

\* File::create: the file exists and is empty
FileCreate(files, path) == [p \in (DOMAIN files) \cup {path} |-> IF p = path THEN <<>> ELSE files[p]]
NoFiles == [p \in {} |-> <<>>]

write_begin(p, files) ==
    [payload |-> [p EXCEPT !.dest_file = Some(p.dest)], fs |-> FileCreate(files, p.dest)]

\* a faulty write_block: every block written completes the payload
write_block_eager(p, files, b) ==
    IF p.remaining < Len(b)
    THEN [status |-> "PayloadDeployError", payload |-> p, fs |-> files]
    ELSE IF p.dest_file = None
    THEN [status |-> "Panic", payload |-> p, fs |-> files]
    ELSE [status |-> "Complete",
          payload |-> [p EXCEPT !.remaining = p.remaining - Len(b)],
          fs |-> [files EXCEPT ![p.dest_file[1]] = files[p.dest_file[1]] \o b]]

\* a faulty write_block: a block longer than remaining is cut to remaining
write_block_truncating(p, files, b) ==
    IF p.dest_file = None
    THEN [status |-> "Panic", payload |-> p, fs |-> files]
    ELSE [status |-> IF p.remaining - Min(Len(b), p.remaining) = 0 THEN "Complete" ELSE "Pending",
          payload |-> [p EXCEPT !.remaining = p.remaining - Min(Len(b), p.remaining)],
          fs |-> [files EXCEPT ![p.dest_file[1]] =
                      files[p.dest_file[1]] \o SubSeq(b, 1, Min(Len(b), p.remaining))]]

\* a faulty write_block: a completed payload starts over
write_block_rewind(p, files, b) ==
    IF p.remaining < Len(b)
    THEN [status |-> "PayloadDeployError", payload |-> p, fs |-> files]
    ELSE IF p.dest_file = None
    THEN [status |-> "Panic", payload |-> p, fs |-> files]
    ELSE [status |-> IF p.remaining - Len(b) = 0 THEN "Complete" ELSE "Pending",
          payload |-> [p EXCEPT !.remaining =
                          IF p.remaining - Len(b) = 0 THEN p.image_size
                          ELSE p.remaining - Len(b)],
          fs |-> [files EXCEPT ![p.dest_file[1]] = files[p.dest_file[1]] \o b]]
\* status is "Complete", "Pending", "PayloadDeployError" or "Panic"
write_block(p, files, b) ==
    IF p.remaining < Len(b)
    THEN [status |-> "PayloadDeployError", payload |-> p, fs |-> files]
    ELSE IF p.dest_file = None
    THEN [status |-> "Panic", payload |-> p, fs |-> files]
    ELSE [status |-> IF p.remaining - Len(b) = 0 THEN "Complete" ELSE "Pending",
          payload |-> [p EXCEPT !.remaining = p.remaining - Len(b)],
          fs |-> [files EXCEPT ![p.dest_file[1]] = files[p.dest_file[1]] \o b]]

(***************************************************************************)
(* Archive (archive.rs).                                                   *)
(***************************************************************************)
Text(e, c, filename, content, f, nf) ==
    [err |-> e, count |-> c, filename |-> filename, content |-> content, file |-> f,
     name |-> nf.name, res |-> nf.res, magic_at |-> nf.magic_at]

\* read_text_file: one read_next_file and one read into a 4096 byte buffer
TextRead(nf, rd) ==
    IF \E i \in 1..Len(rd.bytes) : rd.bytes[i] >= 128
    THEN Text("Utf8Error", rd.count, <<>>, <<>>, rd.file, nf)
    ELSE Text("", rd.count, nf.file.filename, rd.bytes, rd.file, nf)

TextOpen(s, sh, nf) ==
    IF nf.res = "Err" THEN Text(nf.err, nf.count, <<>>, <<>>, NoCpioFile, nf)
    ELSE IF nf.res = "Panic" THEN Text("Panic", nf.count, <<>>, <<>>, NoCpioFile, nf)
    ELSE IF nf.res = "None" THEN Text("FileNotFoundError", nf.count, <<>>, <<>>, NoCpioFile, nf)
    ELSE IF nf.file.filesize > TEXT_BUF_LEN
    THEN Text("FileBufferSizeError", nf.count, <<>>, <<>>, NewCpioFile(nf.file), nf)
    ELSE TextRead(nf, CpioFile_read(NewCpioFile(nf.file), s, nf.count, sh, TEXT_BUF_LEN))

read_text_file(s, c, sh) == TextOpen(s, sh, read_next_file(s, c))

\* a faulty read_and_parse_text_file: the filename is not compared
Expected_any(tf, filename_expected) == tf
\* read_and_parse_text_file up to the call of the parse function
Expected(tf, filename_expected) ==
    IF tf.err = "" /\ tf.filename # filename_expected
    THEN [tf EXCEPT !.err = "FileNotFoundError"]
    ELSE tf

read_and_parse_text_file(s, c, sh, filename_expected) ==
    Expected(read_text_file(s, c, sh), filename_expected)

\* a faulty get_next_payload: an entry beyond the manifest is deployed
NextDescriptor_lenient(payloads, idx, f) ==
    IF idx > Len(payloads)
    THEN [err |-> "", iter |-> Some(idx), payload |-> NewImagePayload(f.filesize, f.filename)]
    ELSE IF payloads[idx].filename # f.filename
    THEN [err |-> "ManifestFormatError", iter |-> Some(idx + 1), payload |-> NoPayload]
    ELSE [err |-> "", iter |-> Some(idx + 1),
          payload |-> NewImagePayload(f.filesize, payloads[idx].dest)]
\* get_next_payload: the next descriptor of the manifest against the file
NextDescriptor(payloads, idx, f) ==
    IF idx > Len(payloads)
    THEN [err |-> "ManifestFormatError", iter |-> Some(idx), payload |-> NoPayload]
    ELSE IF payloads[idx].filename # f.filename
    THEN [err |-> "ManifestFormatError", iter |-> Some(idx + 1), payload |-> NoPayload]
    ELSE [err |-> "", iter |-> Some(idx + 1),
          payload |-> NewImagePayload(f.filesize, payloads[idx].dest)]

\* a faulty get_next_payload: the descriptor is looked up by filename
get_next_payload_by_name(payloads, iter, f) ==
    IF \E k \in 1..Len(payloads) : payloads[k].filename = f.filename
    THEN [err |-> "", iter |-> Some(1),
          payload |-> NewImagePayload(f.filesize,
              payloads[CHOOSE k \in 1..Len(payloads) : payloads[k].filename = f.filename].dest)]
    ELSE [err |-> "ManifestFormatError", iter |-> Some(1), payload |-> NoPayload]

get_next_payload(payloads, iter, f) ==
    NextDescriptor(payloads, IF iter = None THEN 1 ELSE iter[1], f)

\* a faulty failure of deploy: the destination being written is removed
deploy_failed_rollback(files, p) == [d \in (DOMAIN files) \ {p.dest} |-> files[d]]

\* Archive::deploy, lines 131-138: an error of deploy_payload, get_checksum
\* or finalise is returned with ?; the destination files stay as they are
deploy_failed(files, p) == files

\* a faulty end of deploy: descriptors left in the manifest are an error
deploy_end_strict(payloads, iter) ==
    IF (IF iter = None THEN 1 ELSE iter[1]) <= Len(payloads) THEN "ManifestFormatError"
    ELSE "Ok"

\* Archive::deploy, line 145: once read_next_file returns None the result is
\* Ok(()), whatever the iterator has left of the manifest
deploy_end(payloads, iter) == "Ok"

(***************************************************************************)
(* The archives the model deploys.  An archive is described by its payload *)
(* entries <<name, size>>, the manifest descriptors <<type, filename>>     *)
(* (the i-th with destination "d<i>"), and the checksum table: as the      *)
(* builder writes it ("ok"), or with the line of one payload entry         *)
(* carrying a different value ("bad"), left out ("missing") or carrying    *)
(* text that is no hexadecimal number ("nohex"), or with the line of       *)
(* manifest.jsonc carrying a value that is not the checksum of the         *)
(* manifest in the archive ("stale_manifest").                             *)
(***************************************************************************)
Names == {<<97>>, <<98, 99>>}
Types == {T_image, T_video}
PayloadSizes == {0, 1, BlockLen - 1, BlockLen, BlockLen + 1, 2 * BlockLen, (2 * BlockLen) + 1}
SizeAt(i) == IF i % 2 = 1 THEN 1 ELSE BlockLen + 1

DataOf(e, n) == [i \in 1..n |-> ((e * 101) + (i * 37)) % 256]
DestOf(i) == <<100, 48 + i>>

NameSeqs == UNION {[1..n -> Names] : n \in 0..MaxEntries}
EntriesOf(ns) == [i \in 1..Len(ns) |-> <<ns[i], SizeAt(i)>>]
ImageDescs(ns) == [i \in 1..Len(ns) |-> <<T_image, ns[i]>>]
DescSeqs ==
    {ds \in UNION {[1..n -> Types \X Names] : n \in 0..MaxDescs} :
        Cardinality({i \in 1..Len(ds) : ds[i][1] # T_image}) <= 1}
Tables(n) == {<<"ok", 0>>, <<"stale_manifest", 0>>} \cup ({"bad", "missing", "nohex"} \X (1..n))

\* one payload of every size, described by the manifest
SizeArchives ==
    {[entries |-> << <<ns[1], n>> >>, descs |-> ImageDescs(ns), tbl |-> t] :
        ns \in {<< <<97>> >>}, n \in PayloadSizes, t \in Tables(1)}
\* every sequence of payloads against every manifest
BindingArchives ==
    {[entries |-> EntriesOf(ns), descs |-> ds, tbl |-> <<"ok", 0>>] :
        ns \in NameSeqs, ds \in DescSeqs}
\* every sequence of payloads against every checksum table
TableArchives ==
    UNION {{[entries |-> EntriesOf(ns), descs |-> ImageDescs(ns), tbl |-> t] :
               t \in Tables(Len(ns))} : ns \in NameSeqs}

\* one payload in an archive that does not start with checksums and
\* manifest.jsonc: the two in the other order, one of them left out, under
\* another name or behind the payload, and archives that end early
Layouts ==
    {"swapped", "no_checksums", "no_manifest", "payload_first", "payload_second",
     "renamed_checksums", "renamed_manifest", "only_checksums", "empty"}
LayoutArchives ==
    {[entries |-> EntriesOf(ns), descs |-> ImageDescs(ns), tbl |-> <<l, 0>>] :
        ns \in {<< <<97>> >>}, l \in Layouts}

\* two payloads in an archive that ends c bytes before the end of the data
\* of the second
TruncArchives ==
    {[entries |-> EntriesOf(ns), descs |-> ImageDescs(ns), tbl |-> <<"truncated", c>>] :
        ns \in {<< <<97>>, <<98, 99>> >>}, c \in 1..SizeAt(2)}

Archives ==
    SizeArchives \cup BindingArchives \cup TableArchives \cup LayoutArchives \cup TruncArchives

FilesOf(a) == [i \in 1..Len(a.entries) |-> [name |-> a.entries[i][1], data |-> DataOf(i, a.entries[i][2])]]
DescsOf(a) ==
    [i \in 1..Len(a.descs) |-> [payload_type |-> a.descs[i][1], filename |-> a.descs[i][2], dest |-> DestOf(i)]]
ManifestOf(a) == [name |-> MANIFEST_FILENAME, data |-> ManifestText(DescsOf(a))]

\* the line of f with a checksum that is not the checksum of its data
BadLine(f) ==
    checksum_line(f.name, [final_value |-> Some(Xor32(checksum_file(f.data).final_value[1], <<0, 1>>)),
                           hasher |-> None])

TableLine(a, files, i) ==
    IF i = a.tbl[2] /\ a.tbl[1] = "missing" THEN <<>>
    ELSE IF i = a.tbl[2] /\ a.tbl[1] = "bad" THEN BadLine(files[i])
    ELSE IF i = a.tbl[2] /\ a.tbl[1] = "nohex" THEN files[i].name \o <<9, 120, 121, 10>>
    ELSE build_checksum_file(<<files[i]>>)

TableText(a, m, files) ==
    (IF a.tbl[1] = "stale_manifest" THEN BadLine(m) ELSE build_checksum_file(<<m>>))
        \o Concat([i \in 1..Len(files) |-> TableLine(a, files, i)])

\* the files of an archive in the order of its layout
Layout(kind, ck, m, files) ==
    IF kind = "swapped" THEN <<m, ck>> \o files
    ELSE IF kind = "no_checksums" THEN <<m>> \o files
    ELSE IF kind = "no_manifest" THEN <<ck>> \o files
    ELSE IF kind = "payload_first" THEN files \o <<ck, m>>
    ELSE IF kind = "payload_second" THEN <<ck>> \o files \o <<m>>
    ELSE IF kind = "renamed_checksums" THEN <<[ck EXCEPT !.name = <<120>>], m>> \o files
    ELSE IF kind = "renamed_manifest" THEN <<ck, [m EXCEPT !.name = <<120>>]>> \o files
    ELSE IF kind = "only_checksums" THEN <<ck>>
    ELSE IF kind = "empty" THEN <<>>
    ELSE <<ck, m>> \o files

\* build_archive: checksums, manifest.jsonc, then the payload files
ArchiveFiles(a, m, files) ==
    Layout(a.tbl[1], [name |-> CHECKSUMS_FILENAME, data |-> TableText(a, m, files)], m, files)

build_archive(a) == generate_archive(ArchiveFiles(a, ManifestOf(a), FilesOf(a)))

\* the bytes the source delivers: the archive, or the archive cut off inside
\* the data of its last entry
Delivered(a, s) ==
    IF a.tbl[1] = "truncated"
    THEN SubSeq(s, 1, Len(s) - Len(cpio_entry(TRAILER, <<>>))
                          - Pad4(a.entries[Len(a.entries)][2]) - a.tbl[2])
    ELSE s

(***************************************************************************)
(* Archive::new followed by Archive::deploy.                               *)
(***************************************************************************)
Init ==
    /\ arch \in Archives
    /\ stream = Delivered(arch, build_archive(arch))
    /\ short \in {0, ShortLen}
    /\ count = 0
    /\ pc = "read_checksum_file"
    /\ result = ""
    /\ checksums = EmptyMap
    /\ manifest = <<>>
    /\ payload_iter = None
    /\ file = NoCpioFile
    /\ payload = NoPayload
    /\ buf = <<>>
    /\ fs = NoFiles
    /\ hist = <<>>
    /\ reader = NoHttpReader
    /\ got = <<>>
    /\ req = -1

Fail(e) == pc' = "failed" /\ result' = e

\* Archive::new, line 77: read_checksum_file
ReadChecksumFile ==
    /\ pc = "read_checksum_file"
    /\ \E tf \in {read_and_parse_text_file(stream, count, short, CHECKSUMS_FILENAME)} :
       \E parsed \in {parse_checksum_file(tf.content)} :
           /\ count' = tf.count
           /\ file' = tf.file
           /\ hist' = Append(hist, Ev("read_next_file", tf.name, tf.magic_at, tf.res,
                                      count, file.remaining))
           /\ IF tf.err # "" THEN Fail(tf.err) /\ UNCHANGED checksums
              ELSE IF ~parsed.ok THEN Fail("ChecksumFormatError") /\ UNCHANGED checksums
              ELSE pc' = "read_manifest" /\ checksums' = parsed.cksums /\ UNCHANGED result
    /\ UNCHANGED <<reader, stream, short, manifest, payload_iter, payload, buf, fs, arch, got, req>>

\* a faulty read_manifest: the checksum of the manifest entry is finalised
\* and compared with the line of manifest.jsonc in the table
ReadManifest_verifying ==
    /\ pc = "read_manifest"
    /\ \E tf \in {read_and_parse_text_file(stream, count, short, MANIFEST_FILENAME)} :
       \E parsed \in {parse_manifest(tf.content)} :
       \E expected \in {get_checksum(checksums, MANIFEST_FILENAME)} :
           /\ count' = tf.count
           /\ file' = tf.file
           /\ hist' = Append(hist, Ev("read_next_file", tf.name, tf.magic_at, tf.res,
                                      count, file.remaining))
           /\ IF tf.err # "" THEN Fail(tf.err) /\ UNCHANGED manifest
              ELSE IF expected = None THEN Fail("ChecksumMissingError") /\ UNCHANGED manifest
              ELSE IF checksum_eq(finalise(tf.file.cksum), expected[1]) # "eq"
              THEN Fail("ChecksumMismatchError") /\ UNCHANGED manifest
              ELSE IF ~parsed.ok THEN Fail("ManifestParseError") /\ UNCHANGED manifest
              ELSE pc' = "deploy" /\ manifest' = parsed.payloads /\ UNCHANGED result
    /\ UNCHANGED <<reader, stream, short, checksums, payload_iter, payload, buf, fs, arch, got, req>>

\* Archive::new, line 78: read_manifest; then the Archive is returned
ReadManifest ==
    /\ pc = "read_manifest"
    /\ \E tf \in {read_and_parse_text_file(stream, count, short, MANIFEST_FILENAME)} :
       \E parsed \in {parse_manifest(tf.content)} :
           /\ count' = tf.count
           /\ file' = tf.file
           /\ hist' = Append(hist, Ev("read_next_file", tf.name, tf.magic_at, tf.res,
                                      count, file.remaining))
           /\ IF tf.err # "" THEN Fail(tf.err) /\ UNCHANGED manifest
              ELSE IF ~parsed.ok THEN Fail("ManifestParseError") /\ UNCHANGED manifest
              ELSE pc' = "deploy" /\ manifest' = parsed.payloads /\ UNCHANGED result
    /\ UNCHANGED <<reader, stream, short, checksums, payload_iter, payload, buf, fs, arch, got, req>>

\* Archive::deploy, line 128: the head of the loop
DeployNext ==
    /\ pc = "deploy"
    /\ \E nf \in {read_next_file(stream, count)} :
           /\ count' = nf.count
           /\ hist' = Append(hist, Ev("read_next_file", nf.name, nf.magic_at, nf.res,
                                      count, file.remaining))
           /\ IF nf.res = "Err" THEN Fail(nf.err) /\ UNCHANGED file
              ELSE IF nf.res = "Panic" THEN Fail("Panic") /\ UNCHANGED file
              ELSE IF nf.res = "None"
                   THEN pc' = "done" /\ result' = deploy_end(manifest, payload_iter)
                        /\ UNCHANGED file
              ELSE pc' = "get_next_payload" /\ file' = NewCpioFile(nf.file) /\ UNCHANGED result
    /\ UNCHANGED <<reader, stream, short, checksums, manifest, payload_iter, payload, buf, fs, arch,
                   got, req>>

\* Archive::deploy, line 129
GetNextPayload ==
    /\ pc = "get_next_payload"
    /\ \E r \in {get_next_payload(manifest, payload_iter, file)} :
           /\ payload_iter' = r.iter
           /\ hist' = Append(hist, Ev("get_next_payload", file.filename, 0,
                                      IF r.err = "" THEN "Ok" ELSE r.err, count, file.remaining))
           /\ IF r.err # "" THEN Fail(r.err) /\ UNCHANGED payload
              ELSE pc' = "write_begin" /\ payload' = r.payload /\ UNCHANGED result
    /\ UNCHANGED <<reader, stream, count, short, checksums, manifest, file, buf, fs, arch, got, req>>

\* deploy_payload, line 104
WriteBegin ==
    /\ pc = "write_begin"
    /\ \E r \in {write_begin(payload, fs)} :
           /\ payload' = r.payload
           /\ fs' = r.fs
    /\ hist' = Append(hist, Ev("write_begin", payload.dest, 0, "Ok", count, file.remaining))
    /\ pc' = "read_block"
    /\ UNCHANGED <<reader, stream, count, short, result, checksums, manifest, payload_iter, file, buf,
                   arch, got, req>>

\* a faulty end-of-data test: an exhausted reader is never noticed
read_completed_never(read_count) == FALSE

\* deploy_payload, line 109: the read gave no bytes
read_completed(read_count) == read_count = 0

\* deploy_payload, lines 107-114: read_block and the test of read_count
ReadBlock ==
    /\ pc = "read_block"
    /\ \E r \in {CpioFile_read(file, stream, count, short, BlockLen)} :
           /\ count' = r.count
           /\ file' = r.file
           /\ buf' = r.bytes
           /\ hist' = Append(hist, Ev("read", file.filename, Len(r.bytes), "Ok",
                                      count, file.remaining))
           /\ IF read_completed(Len(r.bytes))
              THEN Fail("PayloadDeployError") /\ fs' = deploy_failed(fs, payload)
              ELSE pc' = "write_block" /\ UNCHANGED <<result, fs>>
    /\ UNCHANGED <<reader, stream, short, checksums, manifest, payload_iter, payload, arch, got, req>>

\* deploy_payload, lines 116-119
WriteBlock ==
    /\ pc = "write_block"
    /\ \E r \in {write_block(payload, fs, buf)} :
           /\ payload' = r.payload
           /\ hist' = Append(hist, Ev("write_block", payload.dest, Len(buf), r.status,
                                      count, file.remaining))
           /\ IF r.status = "Complete"
              THEN pc' = "get_checksum" /\ fs' = r.fs /\ UNCHANGED result
              ELSE IF r.status = "Pending"
              THEN pc' = "read_block" /\ fs' = r.fs /\ UNCHANGED result
              ELSE Fail(r.status) /\ fs' = deploy_failed(r.fs, payload)
    /\ buf' = <<>>
    /\ UNCHANGED <<reader, stream, count, short, checksums, manifest, payload_iter, file, arch, got, req>>

\* Archive::deploy, lines 133-138: get_checksum, then CpioFile::finalise
Verify ==
    /\ pc = "get_checksum"
    /\ \E cksum_expected \in {get_checksum(checksums, file.filename)} :
           IF cksum_expected = None
           THEN /\ Fail("ChecksumMissingError")
                /\ fs' = deploy_failed(fs, payload)
                /\ hist' = Append(hist, Ev("get_checksum", file.filename, 0, "None",
                                           count, file.remaining))
                /\ UNCHANGED file
           ELSE \E r \in {CpioFile_finalise(file, cksum_expected[1])} :
                /\ file' = r.file
                /\ hist' = hist \o <<Ev("get_checksum", file.filename, 0, "Some",
                                        count, file.remaining),
                                     Ev("finalise", file.filename, 0, r.res,
                                        count, file.remaining)>>
                /\ IF r.res = "Ok" THEN pc' = "deploy" /\ UNCHANGED <<result, fs>>
                   ELSE Fail(r.res) /\ fs' = deploy_failed(fs, payload)
    /\ UNCHANGED <<reader, stream, count, short, checksums, manifest, payload_iter, payload, buf,
                   arch, got, req>>

Next ==
    \/ ReadChecksumFile
    \/ ReadManifest
    \/ DeployNext
    \/ GetNextPayload
    \/ WriteBegin
    \/ ReadBlock
    \/ WriteBlock
    \/ Verify

Spec == Init /\ [][Next]_vars

(***************************************************************************)
(* A Checksum on its own: a byte sequence fed to update in consecutive     *)
(* chunks of any lengths, then finalise.  stream is the sequence, count    *)
(* the bytes fed so far, file.cksum the Checksum, req the length of the    *)
(* last chunk.                                                             *)
(***************************************************************************)
SomeBytes == {0, 49, 255}
ByteSeqs == UNION {[1..n -> SomeBytes] : n \in 0..MaxLen}

InitChecksum ==
    /\ stream \in ByteSeqs
    /\ count = 0
    /\ file = NoCpioFile
    /\ pc = "update"
    /\ req = -1
    /\ got = <<>>
    /\ short = 0
    /\ result = ""
    /\ checksums = EmptyMap
    /\ manifest = <<>>
    /\ payload_iter = None
    /\ payload = NoPayload
    /\ buf = <<>>
    /\ fs = NoFiles
    /\ arch = [entries |-> <<>>, descs |-> <<>>, tbl |-> <<"none", 0>>]
    /\ hist = <<>>
    /\ reader = NoHttpReader

\* Checksum::update with the next n bytes
ChecksumUpdate ==
    /\ pc = "update"
    /\ \E n \in 0..Min(MaxChunk, Len(stream) - count) :
       \E chunk \in {SubSeq(stream, count + 1, count + n)} :
           /\ file' = [file EXCEPT !.cksum = update(file.cksum, chunk)]
           /\ count' = count + n
           /\ req' = n
           /\ got' = got \o chunk
    /\ UNCHANGED <<reader, stream, short, pc, result, checksums, manifest, payload_iter, payload, buf,
                   fs, arch, hist>>

\* Checksum::finalise once every byte has been fed
ChecksumFinalise ==
    /\ pc = "update"
    /\ count = Len(stream)
    /\ file' = [file EXCEPT !.cksum = finalise(file.cksum)]
    /\ pc' = "finalised"
    /\ UNCHANGED <<reader, stream, count, short, result, checksums, manifest, payload_iter, payload,
                   buf, fs, arch, hist, got, req>>

NextChecksum == ChecksumUpdate \/ ChecksumFinalise

SpecChecksum == InitChecksum /\ [][NextChecksum]_vars

(***************************************************************************)
(* An ImagePayload on its own: write_begin and write_block called in any   *)
(* order with any chunk.  buf is the chunk of the last write_block (empty  *)
(* after write_begin), result the outcome of the last call.                *)
(***************************************************************************)
Chunks == {DataOf(k, n) : k \in 1..2, n \in 0..MaxChunk}

InitPayload ==
    /\ payload \in {NewImagePayload(n, DestOf(1)) : n \in 0..MaxImage}
    /\ fs = NoFiles
    /\ buf = <<>>
    /\ result = ""
    /\ pc = "payload"
    /\ stream = <<>>
    /\ count = 0
    /\ short = 0
    /\ checksums = EmptyMap
    /\ manifest = <<>>
    /\ payload_iter = None
    /\ file = NoCpioFile
    /\ arch = [entries |-> <<>>, descs |-> <<>>, tbl |-> <<"none", 0>>]
    /\ hist = <<>>
    /\ reader = NoHttpReader
    /\ got = <<>>
    /\ req = -1

PayloadWriteBegin ==
    /\ pc = "payload"
    /\ \E r \in {write_begin(payload, fs)} :
           /\ payload' = r.payload
           /\ fs' = r.fs
    /\ buf' = <<>>
    /\ result' = "Ok"
    /\ UNCHANGED <<reader, stream, count, short, pc, checksums, manifest, payload_iter, file, arch,
                   hist, got, req>>

\* a panic (write_block before write_begin) ends the program
PayloadWriteBlock ==
    /\ pc = "payload"
    /\ \E b \in Chunks :
       \E r \in {write_block(payload, fs, b)} :
           /\ payload' = r.payload
           /\ fs' = r.fs
           /\ buf' = b
           /\ result' = r.status
           /\ pc' = IF r.status = "Panic" THEN "failed" ELSE pc
    /\ UNCHANGED <<reader, stream, count, short, checksums, manifest, payload_iter, file, arch,
                   hist, got, req>>

NextPayload == PayloadWriteBegin \/ PayloadWriteBlock

SpecPayload == InitPayload /\ [][NextPayload]_vars

(***************************************************************************)
(* The decoder on its own: a caller of read_next_file and of               *)
(* CpioFile::read with buffers of any length, over archives whose entries  *)
(* have names of every length modulo 4 and data of every length up to      *)
(* MaxLen, and archives with an entry whose data is a newc entry, read     *)
(* from sources that fill a request or return fewer bytes.  The caller may *)
(* ask for the next file before the live one is drained.                   *)
(***************************************************************************)
NameOfLen(k) == [i \in 1..k |-> 96 + i]

CpioEntries(s, n) ==
    [i \in 1..n |-> <<NameOfLen(((s + i) % 4) + 1), (s + i - 1) % (MaxLen + 1)>>]

CpioArchives ==
    {[entries |-> CpioEntries(s, n), descs |-> <<>>, tbl |-> <<"none", 0>>] :
        s \in 0..MaxLen, n \in 0..MaxEntries}

\* archives with one entry whose data is itself a newc entry: header, name
\* and data
NestedArchives ==
    {[entries |-> << <<NameOfLen(1), d>> >>, descs |-> <<>>, tbl |-> <<"nested", 0>>] :
        d \in 0..1}

NestedFiles(a) ==
    [i \in 1..Len(a.entries) |->
        [name |-> a.entries[i][1], data |-> cpio_entry(<<110>>, DataOf(i, a.entries[i][2]))]]

CpioFiles(a) == IF a.tbl[1] = "nested" THEN NestedFiles(a) ELSE FilesOf(a)

InitCpio ==
    /\ arch \in CpioArchives \cup NestedArchives
    /\ stream = generate_archive(CpioFiles(arch))
    /\ short \in 0..(MaxReq - 1)
    /\ count = 0
    /\ pc = "cpio"
    /\ result = ""
    /\ file = NoCpioFile
    /\ buf = <<>>
    /\ got = <<>>
    /\ req = -1
    /\ hist = <<>>
    /\ reader = NoHttpReader
    /\ checksums = EmptyMap
    /\ manifest = <<>>
    /\ payload_iter = None
    /\ payload = NoPayload
    /\ fs = NoFiles

\* CpioReader::read_next_file
CpioNextFile ==
    /\ pc = "cpio"
    /\ \E nf \in {read_next_file(stream, count)} :
           /\ count' = nf.count
           /\ hist' = Append(hist, Ev("read_next_file", nf.name, nf.magic_at, nf.res,
                                      count, file.remaining))
           /\ IF nf.res = "Some"
              THEN /\ file' = NewCpioFile(nf.file)
                   /\ UNCHANGED <<pc, result>>
              ELSE /\ pc' = IF nf.res = "None" THEN "end" ELSE "failed"
                   /\ result' = IF nf.res = "Err" THEN nf.err ELSE nf.res
                   /\ UNCHANGED file
    /\ buf' = <<>>
    /\ got' = <<>>
    /\ req' = -1
    /\ UNCHANGED <<reader, stream, short, checksums, manifest, payload_iter, payload, fs, arch>>

\* CpioFile::read into a buffer of len bytes
CpioRead ==
    /\ pc = "cpio"
    /\ hist # <<>>
    /\ \E len \in 0..MaxReq :
       \E r \in {CpioFile_read(file, stream, count, short, len)} :
           /\ count' = r.count
           /\ file' = r.file
           /\ buf' = r.bytes
           /\ got' = got \o r.bytes
           /\ req' = len
    /\ UNCHANGED <<reader, stream, short, pc, result, checksums, manifest, payload_iter, payload, fs,
                   arch, hist>>

NextCpio == CpioNextFile \/ CpioRead

SpecCpio == InitCpio /\ [][NextCpio]_vars

(***************************************************************************)
(* The decoder over a source that ends early: the first bytes of an        *)
(* archive without entries or with one entry, cut at every length.         *)
(***************************************************************************)
CutArchives ==
    UNION {{[entries |-> CpioEntries(1, n), descs |-> <<>>, tbl |-> <<"cut", k>>] :
               k \in 0..(Len(generate_archive(FilesOf([entries |-> CpioEntries(1, n),
                                                      descs |-> <<>>,
                                                      tbl |-> <<"cut", 0>>]))) - 1)} :
           n \in 0..1}

InitCut ==
    /\ arch \in CutArchives
    /\ stream = SubSeq(generate_archive(CpioFiles(arch)), 1, arch.tbl[2])
    /\ short \in {0, 1}
    /\ count = 0
    /\ pc = "cpio"
    /\ result = ""
    /\ file = NoCpioFile
    /\ buf = <<>>
    /\ got = <<>>
    /\ req = -1
    /\ hist = <<>>
    /\ reader = NoHttpReader
    /\ checksums = EmptyMap
    /\ manifest = <<>>
    /\ payload_iter = None
    /\ payload = NoPayload
    /\ fs = NoFiles

SpecCut == InitCut /\ [][NextCpio]_vars

(***************************************************************************)
(* HttpReader (http_reader.rs): a reader that fetches the resource at a    *)
(* URL chunk by chunk with Range requests.  stream is the resource on the  *)
(* server, reader the HttpReader after new (content_length taken from the  *)
(* HEAD response), req the length of the caller's buffer at the last read, *)
(* buf the bytes that read returned and got all bytes returned so far.     *)
(* Vec::with_capacity(n) gives a capacity of at least n.                   *)
(***************************************************************************)
\* the server's answer to "Range: bytes=first-last", both offsets inclusive,
\* the last one cut to the end of the resource
ServerGet(s, first, last) == SubSeq(s, first + 1, Min(last, Len(s) - 1) + 1)

\* RangeHeaderIterator::next: the range requested, and the iterator moved on
RangeHeaderIterator_next(rd) ==
    IF rd.content_length - rd.byte_pos > 0
    THEN [some |-> TRUE,
          first |-> rd.byte_pos,
          last |-> rd.byte_pos + Min(ChunkLen, rd.content_length - rd.byte_pos),
          reader |-> [rd EXCEPT !.byte_pos =
                                   rd.byte_pos + Min(ChunkLen, rd.content_length - rd.byte_pos)]]
    ELSE [some |-> FALSE, first |-> 0, last |-> 0, reader |-> rd]

ChunkBuffer_len(rd) == Len(rd.buf) - rd.read_pos

\* ChunkBuffer::read_bytes into a buffer of len bytes; the slice of
\* self.buf panics when it ends behind the buffer
read_bytes(rd, len) ==
    IF rd.read_pos + Min(len, Len(rd.buf)) > Len(rd.buf)
    THEN [res |-> "Panic", bytes |-> <<>>, reader |-> rd]
    ELSE [res |-> "Ok",
          bytes |-> SubSeq(rd.buf, rd.read_pos + 1, rd.read_pos + Min(len, Len(rd.buf))),
          reader |-> [rd EXCEPT !.read_pos = rd.read_pos + Min(len, Len(rd.buf))]]

\* ChunkBuffer::write_bytes: the assertion, then the buffer is replaced
write_bytes(rd, src) ==
    IF Len(src) > rd.capacity THEN [panic |-> TRUE, reader |-> rd]
    ELSE [panic |-> FALSE, reader |-> [rd EXCEPT !.buf = src, !.read_pos = 0]]

ChunkWritten(w, len) ==
    IF w.panic THEN [res |-> "Panic", bytes |-> <<>>, reader |-> w.reader]
    ELSE read_bytes(w.reader, len)

RangeRequested(nx, s, len) ==
    IF ~nx.some THEN [res |-> "Ok", bytes |-> <<>>, reader |-> nx.reader]
    ELSE ChunkWritten(write_bytes(nx.reader, ServerGet(s, nx.first, nx.last)), len)

\* Read for HttpReader with a buffer of len bytes
HttpReader_read(rd, s, len) ==
    IF ChunkBuffer_len(rd) > 0 THEN read_bytes(rd, len)
    ELSE RangeRequested(RangeHeaderIterator_next(rd), s, len)

\* HttpReader::new
HttpReader_new(content_length, capacity) ==
    [byte_pos |-> 0, content_length |-> content_length, buf |-> <<>>, read_pos |-> 0,
     capacity |-> capacity]

\* resources shorter than a chunk, of one chunk, and of up to two chunks and
\* a byte; the bytes of a resource are all different
ContentLengths == 0..((2 * ChunkLen) + 1)
HttpBufLens == 1..(ChunkLen + 1)

InitHttp ==
    /\ stream \in {[i \in 1..n |-> i] : n \in ContentLengths}
    /\ reader \in {HttpReader_new(Len(stream), c) : c \in {ChunkLen, ChunkLen + 1}}
    /\ pc = "http"
    /\ result = ""
    /\ buf = <<>>
    /\ got = <<>>
    /\ req = -1
    /\ count = 0
    /\ short = 0
    /\ checksums = EmptyMap
    /\ manifest = <<>>
    /\ payload_iter = None
    /\ file = NoCpioFile
    /\ payload = NoPayload
    /\ fs = NoFiles
    /\ arch = [entries |-> <<>>, descs |-> <<>>, tbl |-> <<"none", 0>>]
    /\ hist = <<>>

\* one read of a caller that reads until read returns 0; a panic ends the
\* program
HttpRead ==
    /\ pc = "http"
    /\ \E len \in HttpBufLens :
       \E r \in {HttpReader_read(reader, stream, len)} :
           /\ reader' = r.reader
           /\ req' = len
           /\ buf' = r.bytes
           /\ got' = got \o r.bytes
           /\ result' = r.res
           /\ pc' = IF r.res = "Panic" THEN "failed"
                    ELSE IF r.bytes = <<>> THEN "eof"
                    ELSE pc
    /\ UNCHANGED <<stream, count, short, checksums, manifest, payload_iter, file, payload, fs,
                   arch, hist>>

NextHttp == HttpRead

SpecHttp == InitHttp /\ [][NextHttp]_vars

(***************************************************************************)
(* The calls of a run.                                                     *)
(***************************************************************************)
NextFileCalls == {i \in DOMAIN hist : hist[i].ev = "read_next_file"}

\* the payload entry the call hist[i] is about: the entries of checksums
\* and manifest.jsonc come first
EntryOf(i) == Cardinality({j \in NextFileCalls : j <= i}) - 2

Wrote(i) == hist[i].ev = "write_block" /\ hist[i].res \in {"Complete", "Pending"}

\* the bytes of payload entry e written by the calls hist[1..k]
RECURSIVE Written(_, _)
Written(e, k) ==
    IF k = 0 THEN 0
    ELSE Written(e, k - 1) + (IF Wrote(k) /\ EntryOf(k) = e THEN hist[k].n ELSE 0)

VerifiedBefore(e, i) ==
    \E j \in 1..(i - 1) : hist[j].ev = "finalise" /\ hist[j].res = "Ok" /\ EntryOf(j) = e

(***************************************************************************)
(* C1.  As stated: no byte of a payload entry is written to its            *)
(* destination before the entry has been verified against its recorded     *)
(* checksum.                                                               *)
(***************************************************************************)
C1_WriteOnlyAfterVerify ==
    \A i \in DOMAIN hist :
        (Wrote(i) /\ hist[i].n > 0) => VerifiedBefore(EntryOf(i), i)

(***************************************************************************)
(* C1, amended.  An entry is verified only after all its bytes have been   *)
(* written: at the lookup of its checksum and at finalise, write_block has *)
(* written exactly the filesize bytes of the entry; no write of the entry  *)
(* follows its verification, and nothing is written for an entry before    *)
(* every earlier payload entry has been verified successfully.             *)
(***************************************************************************)
C1_VerifyAfterWrite ==
    \A i \in DOMAIN hist :
        /\ hist[i].ev \in {"get_checksum", "finalise"} =>
               /\ EntryOf(i) \in 1..Len(arch.entries)
               /\ Written(EntryOf(i), i) = arch.entries[EntryOf(i)][2]
        /\ hist[i].ev \in {"write_begin", "write_block"} =>
               /\ \A j \in 1..(i - 1) :
                      hist[j].ev \in {"get_checksum", "finalise"} => EntryOf(j) < EntryOf(i)
               /\ \A e \in 1..(EntryOf(i) - 1) : VerifiedBefore(e, i)

\* an entry of more than one block has been written and then verified
C1_Witness ==
    \E i \in DOMAIN hist :
        /\ hist[i].ev = "finalise"
        /\ hist[i].res = "Ok"
        /\ Written(EntryOf(i), i) > BlockLen

(***************************************************************************)
(* C2.  For an archive with checksums, manifest.jsonc with one image       *)
(* descriptor whose filename matches, and one payload entry of N >= 1      *)
(* bytes whose CRC-32 is in the table, read from a source that fills every *)
(* request: Archive::new and deploy never fail (the run is at one of its   *)
(* steps or done), and at the end the result is Ok and the destination     *)
(* holds exactly the N bytes of the entry, for N below, at and above the   *)
(* block length and at and above two blocks.                               *)
(***************************************************************************)
C2_Case ==
    /\ short = 0
    /\ Len(arch.entries) = 1
    /\ arch.entries[1][2] >= 1
    /\ arch.descs = << <<T_image, arch.entries[1][1]>> >>
    /\ arch.tbl[1] = "ok"

C2_OnePayloadDeployed ==
    C2_Case =>
        /\ pc \in {"read_checksum_file", "read_manifest", "deploy", "get_next_payload",
                   "write_begin", "read_block", "write_block", "get_checksum", "done"}
        /\ pc = "done" =>
               /\ result = "Ok"
               /\ fs = [p \in {DestOf(1)} |-> DataOf(1, arch.entries[1][2])]
               /\ Written(1, Len(hist)) = arch.entries[1][2]

\* a payload of two blocks and one byte has been deployed
C2_Witness ==
    /\ C2_Case
    /\ pc = "done"
    /\ arch.entries[1][2] = (2 * BlockLen) + 1
    /\ fs[DestOf(1)] = DataOf(1, (2 * BlockLen) + 1)

(***************************************************************************)
(* C3.  When the filename of the N-th payload entry differs from the       *)
(* filename of the N-th descriptor of the manifest, get_next_payload fails *)
(* with ManifestFormatError, it is the last call of the run (no            *)
(* write_begin, no write_block for the entry), deploy fails with that      *)
(* error and the destination of the N-th descriptor does not exist, also   *)
(* when a descriptor at another position has the filename of the entry.    *)
(***************************************************************************)
C3_Mismatch(i) ==
    /\ hist[i].ev = "get_next_payload"
    /\ EntryOf(i) \in 1..Len(arch.entries)
    /\ EntryOf(i) <= Len(arch.descs)
    /\ arch.descs[EntryOf(i)][2] # arch.entries[EntryOf(i)][1]

C3_PositionalMismatch ==
    \A i \in DOMAIN hist :
        C3_Mismatch(i) =>
            /\ hist[i].name = arch.entries[EntryOf(i)][1]
            /\ hist[i].res = "ManifestFormatError"
            /\ i = Len(hist)
            /\ pc = "failed"
            /\ result = "ManifestFormatError"
            /\ DestOf(EntryOf(i)) \notin DOMAIN fs

\* the first entry does not match the first descriptor, and the second
\* descriptor has the filename of the first entry
C3_Witness ==
    /\ hist # <<>>
    /\ C3_Mismatch(Len(hist))
    /\ Len(arch.descs) = 2
    /\ arch.descs[2][2] = arch.entries[1][1]
    /\ result = "ManifestFormatError"

(***************************************************************************)
(* C4.  As stated: a manifest with a descriptor whose type is not "image"  *)
(* is not rejected when the manifest is parsed: Archive::new succeeds, and *)
(* the run fails only when deploy reaches that descriptor, with            *)
(* UnknownPayload.                                                         *)
(***************************************************************************)
C4_Case ==
    /\ short = 0
    /\ \E k \in 1..Len(arch.descs) : arch.descs[k][1] # T_image

C4_RejectedAtDispatch ==
    C4_Case =>
        /\ result # "ManifestParseError"
        /\ pc = "failed" => result = "UnknownPayload"

(***************************************************************************)
(* C5.  In any state of an ImagePayload (before write_begin, part written, *)
(* complete), a write_block whose chunk is longer than remaining returns   *)
(* PayloadDeployError, leaves the destination files as they were and       *)
(* leaves remaining (the whole payload) unchanged.                         *)
(***************************************************************************)
C5_OverflowStep ==
    (pc = "payload" /\ Len(buf') > payload.remaining) =>
        /\ result' = "PayloadDeployError"
        /\ fs' = fs
        /\ payload' = payload

C5_Overflow == [][C5_OverflowStep]_vars

\* a payload with part of its bytes written has refused a chunk
C5_Witness ==
    /\ pc = "payload"
    /\ result = "PayloadDeployError"
    /\ payload.dest_file # None
    /\ payload.remaining > 0
    /\ Len(buf) > payload.remaining
    /\ Len(fs[payload.dest]) = payload.image_size - payload.remaining
    /\ Len(fs[payload.dest]) > 0

(***************************************************************************)
(* C6.  After the write_block that completes a payload the next call is    *)
(* the lookup of the entry's filename in the checksum table.  The lookup   *)
(* finds nothing exactly when the table has no line for the filename, and  *)
(* the run then fails with ChecksumMissingError; finalise reports a        *)
(* mismatch exactly when the recorded value differs from the CRC-32 of the *)
(* entry's data, and the run then fails with ChecksumMismatchError.  A     *)
(* read_next_file after a payload entry directly follows a finalise that   *)
(* succeeded, and a failed lookup or comparison is the last call.          *)
(***************************************************************************)
C6_HasLine(name) ==
    \E k \in 1..Len(arch.entries) :
        arch.entries[k][1] = name /\ arch.tbl # <<"missing", k>>

C6_DataCrc(e) == checksum_file(DataOf(e, arch.entries[e][2])).final_value

C6_VerifyThenNext ==
    \A i \in DOMAIN hist :
        /\ (hist[i].ev = "write_block" /\ hist[i].res = "Complete" /\ i < Len(hist)) =>
               hist[i + 1].ev = "get_checksum" /\ hist[i + 1].name = arch.entries[EntryOf(i)][1]
        /\ hist[i].ev = "get_checksum" =>
               /\ (hist[i].res = "None") <=> ~C6_HasLine(hist[i].name)
               /\ hist[i].res = "None" =>
                      i = Len(hist) /\ pc = "failed" /\ result = "ChecksumMissingError"
               /\ hist[i].res = "Some" => hist[i + 1].ev = "finalise"
        /\ hist[i].ev = "finalise" =>
               /\ hist[i].res \in {"Ok", "ChecksumMismatchError"}
               /\ (hist[i].res = "ChecksumMismatchError") <=>
                      (checksums[hist[i].name].final_value # C6_DataCrc(EntryOf(i)))
               /\ hist[i].res = "ChecksumMismatchError" =>
                      i = Len(hist) /\ pc = "failed" /\ result = "ChecksumMismatchError"
        /\ (hist[i].ev = "read_next_file" /\ EntryOf(i) >= 2) =>
               hist[i - 1].ev = "finalise" /\ hist[i - 1].res = "Ok"

\* the first payload was verified, the second was written and its
\* comparison failed
C6_Witness ==
    /\ hist # <<>>
    /\ hist[Len(hist)].ev = "finalise"
    /\ hist[Len(hist)].res = "ChecksumMismatchError"
    /\ EntryOf(Len(hist)) = 2
    /\ arch.tbl = <<"bad", 2>>
    /\ DestOf(2) \in DOMAIN fs

(***************************************************************************)
(* C7.  read_next_file returns None exactly when the filename decoded from *)
(* the header is TRAILER!!!; no CpioFile is made for the trailer; no call  *)
(* follows the one that returns None; and in an archive that starts with   *)
(* checksums and manifest.jsonc the trailer is the header after the last   *)
(* payload entry and the call that returns None is the last call of        *)
(* deploy, which returns Ok: no read_next_file and no write follows it.    *)
(***************************************************************************)
C7_WellFormed == arch.tbl[1] \in {"ok", "bad", "missing", "nohex"}

C7_Trailer ==
    /\ file.filename # TRAILER
    /\ \A i \in NextFileCalls :
           /\ hist[i].res \in {"Some", "None"} =>
                  ((hist[i].res = "None") <=> (hist[i].name = TRAILER))
           /\ hist[i].res = "None" => i = Len(hist)
           /\ C7_WellFormed =>
                  /\ hist[i].res = "None" =>
                         /\ EntryOf(i) = Len(arch.entries) + 1
                         /\ pc = "done"
                         /\ result = "Ok"
                  /\ (EntryOf(i) = Len(arch.entries) + 1) => hist[i].res = "None"

\* deploy has read two payload entries and then the trailer
C7_Witness ==
    /\ pc = "done"
    /\ Len(arch.entries) = 2
    /\ hist[Len(hist)].ev = "read_next_file"
    /\ hist[Len(hist)].res = "None"
    /\ hist[Len(hist)].name = TRAILER

(***************************************************************************)
(* C8.  Every read of the live entry, with a buffer of any length and a    *)
(* source that fills the request or not, returns at most min(buffer        *)
(* length, remaining) bytes and takes them off remaining; a read with a    *)
(* non-empty buffer returns at least one byte while the entry has bytes    *)
(* left, and when it returns none filesize bytes have been read.  When     *)
(* every earlier entry was drained before the next was asked for, the      *)
(* bytes returned are the next data bytes of the entry as the builder      *)
(* wrote them, and at the end exactly its data: none of the pad or of the  *)
(* next header.                                                            *)
(***************************************************************************)
C8_Data == CpioFiles(arch)[Len(hist)].data
C8_Drained == \A j \in DOMAIN hist : hist[j].left = 0

C8_ReadStep ==
    (pc = "cpio" /\ hist # <<>> /\ hist' = hist) =>
        /\ Len(buf') <= Min(req', file.remaining)
        /\ file'.remaining = file.remaining - Len(buf')
        /\ got' = got \o buf'
        /\ (req' > 0 /\ file.remaining > 0) => Len(buf') >= 1
        /\ (req' > 0 /\ buf' = <<>>) =>
               /\ file'.remaining = 0
               /\ Len(got') = file.filesize
        /\ C8_Drained =>
               /\ got' = SubSeq(C8_Data, 1, Len(got'))
               /\ file.filesize = Len(C8_Data)
               /\ (req' > 0 /\ buf' = <<>>) => got' = C8_Data

C8_Drain == [][C8_ReadStep]_vars

\* an entry longer than any buffer has been drained from a source that
\* returns one byte per read, and a further read returned nothing
C8_Witness ==
    /\ pc = "cpio"
    /\ hist # <<>>
    /\ short = 1
    /\ req > 0
    /\ buf = <<>>
    /\ Len(got) > MaxReq
    /\ got = C8_Data
    /\ file.remaining = 0

(***************************************************************************)
(* C9.  While every entry has been drained before the next read_next_file  *)
(* call, each call succeeds and reads the magic literal at a position that *)
(* is a multiple of 4 and is where the builder put the header; the first   *)
(* call starts at position 0 and reads no pad; a later call starts at the  *)
(* end of the data of the previous entry (draining reads no pad) and reads *)
(* the data pad before the magic.                                          *)
(***************************************************************************)
C9_HeaderAt(k) ==
    Len(Concat([i \in 1..(k - 1) |->
                    cpio_entry(CpioFiles(arch)[i].name, CpioFiles(arch)[i].data)]))

C9_DataEnd(k) ==
    C9_HeaderAt(k)
        + Len(cpio_header(CpioFiles(arch)[k].name \o <<0>>, 0, Len(CpioFiles(arch)[k].name) + 1, 0))
        + Len(CpioFiles(arch)[k].data)

C9_Alignment ==
    \A i \in DOMAIN hist :
        (\A j \in 1..i : hist[j].left = 0) =>
            /\ hist[i].res \in {"Some", "None"}
            /\ hist[i].n % 4 = 0
            /\ hist[i].n = C9_HeaderAt(i)
            /\ i = 1 => (hist[i].pos = 0 /\ hist[i].n = 0)
            /\ i > 1 => (hist[i].pos = C9_DataEnd(i - 1) /\ hist[i].n >= hist[i].pos)

\* two entries were drained and the trailer was read; the data of one of
\* the entries ended off a 4-byte boundary
C9_Witness ==
    /\ pc = "end"
    /\ Len(hist) = 3
    /\ \A j \in 1..3 : hist[j].left = 0
    /\ \E j \in 2..3 : hist[j].n > hist[j].pos

(***************************************************************************)
(* C10.  For every byte sequence and every split of it into consecutive    *)
(* chunks, empty chunks included, one update per chunk followed by         *)
(* finalise gives the final value that one update with the whole sequence  *)
(* followed by finalise gives.                                             *)
(***************************************************************************)
C10_Chunking ==
    pc = "finalised" =>
        /\ got = stream
        /\ file.cksum.final_value # None
        /\ file.cksum = finalise(update(new_hashable, stream))

\* a sequence of the greatest length was fed in more than one chunk, the
\* last of them empty
C10_Witness ==
    /\ pc = "finalised"
    /\ Len(stream) = MaxLen
    /\ req = 0

(***************************************************************************)
(* C11.  Checksum round trip: for the finalised Checksum c of any byte     *)
(* sequence fed in any chunks (and for the extreme 32-bit values),         *)
(* from_str(to_string(c)) succeeds and equals c; and the table line the    *)
(* builder writes for a file of those bytes (name, tab, to_string of the   *)
(* CRC computed in one update), parsed by parse_checksum_file and looked   *)
(* up by the name, compares equal to c.                                    *)
(***************************************************************************)
C11_Words == {<<0, 0>>, <<0, 1>>, <<32768, 0>>, <<43981, 61185>>, <<65535, 65535>>}
C11_Final(v) == [final_value |-> Some(v), hasher |-> None]
C11_Back(ck) == from_str(to_string(ck)[1])
C11_Table(nm) == parse_checksum_file(build_checksum_file(<<[name |-> nm, data |-> stream]>>))
C11_Looked(tbl, nm) == tbl.ok /\ get_checksum(tbl.cksums, nm) # None

C11_RoundTrip ==
    /\ \A v \in C11_Words :
           /\ C11_Back(C11_Final(v)).ok
           /\ C11_Back(C11_Final(v)).cksum = C11_Final(v)
    /\ pc = "finalised" =>
           /\ C11_Back(file.cksum).ok
           /\ C11_Back(file.cksum).cksum = file.cksum
           /\ checksum_eq(C11_Back(file.cksum).cksum, file.cksum) = "eq"
           /\ \A nm \in Names :
                  /\ C11_Looked(C11_Table(nm), nm)
                  /\ checksum_eq(file.cksum, get_checksum(C11_Table(nm).cksums, nm)[1]) = "eq"

\* the checksum of MaxLen bytes fed in more than one chunk, with a letter
\* as its first hex digit, has been finalised
C11_Witness ==
    /\ pc = "finalised"
    /\ Len(stream) = MaxLen
    /\ req < MaxLen
    /\ req > 0
    /\ file.cksum.final_value[1][1] >= 40960

(***************************************************************************)
(* C12.  Archive::new returns an Archive only if the first entry of the    *)
(* archive is named checksums and the second manifest.jsonc.  An entry of  *)
(* another name in the first or the second position, the trailer           *)
(* included, makes Archive::new fail at that position (FileNotFoundError,  *)
(* or Utf8Error when the data of the entry is no UTF-8 text), also when    *)
(* checksums or manifest.jsonc come later in the archive: nothing is read  *)
(* after the failing entry.                                                *)
(***************************************************************************)
C12_Files ==
    Layout(arch.tbl[1], [name |-> CHECKSUMS_FILENAME, data |-> <<>>],
           [name |-> MANIFEST_FILENAME, data |-> <<>>], FilesOf(arch))
\* the filenames of the headers of the archive, the trailer last
C12_Names == [i \in 1..Len(C12_Files) |-> C12_Files[i].name] \o <<TRAILER>>
C12_Returned == pc \notin {"read_checksum_file", "read_manifest", "failed"}

C12_HeaderNames ==
    /\ C12_Returned =>
           /\ C12_Names[1] = CHECKSUMS_FILENAME
           /\ C12_Names[2] = MANIFEST_FILENAME
           /\ hist[1].name = CHECKSUMS_FILENAME
           /\ hist[2].name = MANIFEST_FILENAME
    /\ \A k \in 1..2 :
           (Len(hist) >= k /\ C12_Names[k] # <<CHECKSUMS_FILENAME, MANIFEST_FILENAME>>[k]) =>
               /\ hist[k].ev = "read_next_file"
               /\ hist[k].name = C12_Names[k]
               /\ Len(hist) = k
               /\ pc = "failed"
               /\ result \in {"FileNotFoundError", "Utf8Error"}
               /\ result = "Utf8Error" => hist[k].res = "Some"

\* the payload came second, before manifest.jsonc, and Archive::new failed
C12_Witness ==
    /\ arch.tbl[1] = "payload_second"
    /\ Len(hist) = 2
    /\ hist[1].name = CHECKSUMS_FILENAME
    /\ hist[2].res = "Some"
    /\ pc = "failed"

(***************************************************************************)
(* C13.  Nothing is created or written before both header entries have     *)
(* been parsed: while Archive::new runs there is no destination file and   *)
(* no call of write_begin or write_block; and when the checksum table (a   *)
(* line whose second token is no hexadecimal number) or the manifest (a    *)
(* descriptor whose type is no variant) does not parse, Archive::new fails *)
(* with ChecksumFormatError or ManifestParseError, deploy is not reached   *)
(* and write_begin is called for no payload.                               *)
(***************************************************************************)
C13_BadTable == arch.tbl[1] = "nohex"
C13_BadManifest == \E i \in DOMAIN arch.descs : arch.descs[i][1] # T_image
C13_NoWrite ==
    /\ fs = NoFiles
    /\ \A i \in DOMAIN hist : hist[i].ev \notin {"write_begin", "write_block", "get_next_payload"}

C13_ParseBeforeWrite ==
    /\ pc \in {"read_checksum_file", "read_manifest"} => C13_NoWrite
    /\ (pc = "failed" /\ Cardinality(NextFileCalls) <= 2) => C13_NoWrite
    /\ (short = 0 /\ C7_WellFormed /\ (C13_BadTable \/ C13_BadManifest)) =>
           /\ C13_NoWrite
           /\ pc \in {"read_checksum_file", "read_manifest", "failed"}
           /\ pc = "failed" =>
                  /\ result = (IF C13_BadTable THEN "ChecksumFormatError" ELSE "ManifestParseError")
                  /\ Len(hist) = (IF C13_BadTable THEN 1 ELSE 2)

\* Archive::new has failed on the manifest of an archive with two payloads
C13_Witness ==
    /\ pc = "failed"
    /\ result = "ManifestParseError"
    /\ C13_BadManifest
    /\ Len(arch.entries) = 2
    /\ Len(hist) = 2

(***************************************************************************)
(* C14.  When read_next_file returns None in deploy while descriptors of   *)
(* the manifest have not been consumed, deploy returns Ok: no error is     *)
(* raised, nothing follows the call, and the destinations are those of the *)
(* consumed descriptors only.  This includes an archive without payload    *)
(* entries whose manifest has descriptors.                                 *)
(***************************************************************************)
C14_Consumed == IF payload_iter = None THEN 0 ELSE payload_iter[1] - 1

C14_LeftoverDescriptors ==
    \A i \in NextFileCalls :
        (hist[i].res = "None" /\ EntryOf(i) >= 1 /\ C14_Consumed < Len(manifest)) =>
            /\ i = Len(hist)
            /\ pc = "done"
            /\ result = "Ok"
            /\ C14_Consumed = Len(arch.entries)
            /\ DOMAIN fs = {DestOf(k) : k \in 1..C14_Consumed}

\* deploy is done on an archive without payload entries whose manifest has
\* MaxDescs descriptors
C14_Witness ==
    /\ pc = "done"
    /\ Len(arch.entries) = 0
    /\ Len(manifest) = MaxDescs
    /\ payload_iter = None

(***************************************************************************)
(* C15.  As stated: read_next_file parses no header and issues neither an  *)
(* Entry nor None while the Entry issued before has bytes left: a call     *)
(* made with remaining > 0 fails.                                          *)
(***************************************************************************)
C15_DrainEnforced ==
    \A i \in NextFileCalls :
        hist[i].left > 0 => hist[i].res \notin {"Some", "None"}

(***************************************************************************)
(* C16.  For an archive with more payload entries than the manifest has    *)
(* descriptors, whose descriptors match the first entries by position and  *)
(* whose table is as the builder wrote it: deploy does not return Ok; it   *)
(* fails with ManifestFormatError in get_next_payload for the first entry  *)
(* beyond the manifest, write_begin is not called for that entry, and at   *)
(* the failure every earlier entry has been written in full to its         *)
(* destination and verified.                                               *)
(***************************************************************************)
C16_Case ==
    /\ short = 0
    /\ arch.tbl[1] = "ok"
    /\ Len(arch.descs) < Len(arch.entries)
    /\ \A k \in DOMAIN arch.descs : arch.descs[k] = <<T_image, arch.entries[k][1]>>
    /\ \A j, k \in DOMAIN arch.entries : arch.entries[j][1] = arch.entries[k][1] => j = k

C16_SurplusEntry ==
    C16_Case =>
        /\ pc # "done"
        /\ \A i \in DOMAIN hist :
               hist[i].ev \in {"write_begin", "write_block"} => EntryOf(i) <= Len(arch.descs)
        /\ pc = "failed" =>
               /\ result = "ManifestFormatError"
               /\ hist[Len(hist)].ev = "get_next_payload"
               /\ hist[Len(hist)].res = "ManifestFormatError"
               /\ EntryOf(Len(hist)) = Len(arch.descs) + 1
               /\ \A e \in 1..Len(arch.descs) :
                      /\ Written(e, Len(hist)) = arch.entries[e][2]
                      /\ VerifiedBefore(e, Len(hist))
               /\ fs = [p \in {DestOf(e) : e \in 1..Len(arch.descs)} |->
                           DataOf(CHOOSE e \in 1..Len(arch.descs) : DestOf(e) = p,
                                  arch.entries[CHOOSE e \in 1..Len(arch.descs) : DestOf(e) = p][2])]

\* the second of two entries had no descriptor: the first was deployed and
\* verified, then deploy failed
C16_Witness ==
    /\ C16_Case
    /\ pc = "failed"
    /\ Len(arch.entries) = 2
    /\ Len(arch.descs) = 1
    /\ VerifiedBefore(1, Len(hist))

(***************************************************************************)
(* C17.  No rollback.  The step on which deploy fails after write_begin    *)
(* for an entry leaves every destination file as it was.  After the        *)
(* failure the destination of that entry holds exactly the bytes written   *)
(* so far, a prefix of the data of the entry: all filesize bytes when the  *)
(* checksum is missing or does not match, fewer when the data of an entry  *)
(* that is not empty ended early; and the destination of every entry       *)
(* deployed before holds its data.                                         *)
(***************************************************************************)
C17_Entry == EntryOf(Len(hist))
C17_Begun ==
    \E i \in DOMAIN hist : hist[i].ev = "write_begin" /\ EntryOf(i) = C17_Entry
C17_Size(e) == arch.entries[e][2]

C17_Left ==
    /\ result \in {"PayloadDeployError", "ChecksumMissingError", "ChecksumMismatchError"}
    /\ DOMAIN fs = {DestOf(e) : e \in 1..C17_Entry}
    /\ fs[DestOf(C17_Entry)] =
           SubSeq(DataOf(C17_Entry, C17_Size(C17_Entry)), 1, Written(C17_Entry, Len(hist)))
    /\ result \in {"ChecksumMissingError", "ChecksumMismatchError"} =>
           fs[DestOf(C17_Entry)] = DataOf(C17_Entry, C17_Size(C17_Entry))
    /\ (result = "PayloadDeployError" /\ C17_Size(C17_Entry) > 0) =>
           Len(fs[DestOf(C17_Entry)]) < C17_Size(C17_Entry)
    /\ \A e \in 1..(C17_Entry - 1) : fs[DestOf(e)] = DataOf(e, C17_Size(e))

C17_FailStep ==
    (pc # "failed" /\ pc' = "failed" /\ hist' # <<>> /\ C17_Begun') =>
        /\ fs' = fs
        /\ C17_Left'

C17_NoRollback == [][C17_FailStep]_vars

\* the data of the second entry ended after one block had been written to
\* its destination
C17_Witness ==
    /\ pc = "failed"
    /\ result = "PayloadDeployError"
    /\ C17_Entry = 2
    /\ Len(fs[DestOf(2)]) = BlockLen
    /\ fs[DestOf(1)] = DataOf(1, C17_Size(1))

(***************************************************************************)
(* C18.  As stated: reading an HttpReader until read returns 0 yields      *)
(* exactly the bytes of the resource, in order and each once, for every    *)
(* content length and every sequence of buffer lengths: no read panics,    *)
(* the bytes returned so far are the first bytes of the resource, and when *)
(* read returns 0 they are the whole resource.                             *)
(***************************************************************************)
C18_ReadToEnd ==
    /\ result # "Panic"
    /\ Len(got) <= Len(stream)
    /\ got = SubSeq(stream, 1, Len(got))
    /\ pc = "eof" => got = stream

(***************************************************************************)
(* C19.  When the source ends before the header that a read_next_file call *)
(* is to read is complete (magic, thirteen fields, name and header pad),   *)
(* the call returns IOError, and neither an Entry nor None: so on an empty *)
(* source, on a source that is exhausted at the call, and, when the        *)
(* entries before were drained, on every source that ends before the end   *)
(* of the header pad.  When the header is complete the call succeeds.      *)
(***************************************************************************)
\* the position after the pad of the k-th header, the trailer's included
C19_HeaderEnd(k) ==
    IF k <= Len(arch.entries)
    THEN C9_DataEnd(k) - Len(CpioFiles(arch)[k].data)
    ELSE C9_HeaderAt(k) + Len(cpio_entry(TRAILER, <<>>))

C19_Failed(i) ==
    /\ hist[i].res = "Err"
    /\ i = Len(hist)
    /\ pc = "failed"
    /\ result = "IOError"

C19_SourceEnds ==
    \A i \in NextFileCalls :
        /\ hist[i].pos = Len(stream) => C19_Failed(i)
        /\ (\A j \in 1..i : hist[j].left = 0) =>
               IF Len(stream) < C19_HeaderEnd(i) THEN C19_Failed(i)
               ELSE hist[i].res \in {"Some", "None"}

\* the first entry was drained and the source ended inside the name of the
\* trailer
C19_Witness ==
    /\ Len(hist) = 2
    /\ hist[1].res = "Some"
    /\ hist[2].left = 0
    /\ Len(stream) > C9_HeaderAt(2) + HEADER_SIZE
    /\ Len(stream) < C9_HeaderAt(2) + HEADER_SIZE + Len(TRAILER)
    /\ pc = "failed"
    /\ result = "IOError"

(***************************************************************************)
(* C20.  In Archive::new followed by deploy no unwrap of a Checksum        *)
(* panics: the Checksum of the live entry is accumulating (a hasher, no    *)
(* final value) wherever the entry can be read or finalised, and finalised *)
(* (a final value, no hasher) only by the one finalise call of the entry,  *)
(* after which the entry is not read again; every value of the table is    *)
(* finalised, so the comparison in finalise is between two final values.   *)
(***************************************************************************)
C20_Accumulating(ck) == ck # Panic /\ ck.hasher # None /\ ck.final_value = None
C20_Finalised(ck) == ck # Panic /\ ck.hasher = None /\ ck.final_value # None
C20_FinaliseCalls == {i \in DOMAIN hist : hist[i].ev = "finalise"}

C20_NoUnwrapPanic ==
    /\ result # "Panic"
    /\ \A n \in DOMAIN checksums : C20_Finalised(checksums[n])
    /\ \A i, j \in C20_FinaliseCalls : EntryOf(i) = EntryOf(j) => i = j
    /\ \A i \in C20_FinaliseCalls : hist[i].res \in {"Ok", "ChecksumMismatchError"}
    /\ \A i \in C20_FinaliseCalls :
           \A j \in DOMAIN hist : (hist[j].ev = "read" /\ EntryOf(j) = EntryOf(i)) => j < i
    /\ C20_Accumulating(file.cksum) \/ C20_Finalised(file.cksum)
    /\ C20_Finalised(file.cksum) => C20_FinaliseCalls # {}
    /\ pc \in {"read_manifest", "get_next_payload", "write_begin", "read_block", "write_block",
               "get_checksum"} => C20_Accumulating(file.cksum)

\* two entries have been read block by block and finalised, one after the
\* other
C20_Witness ==
    /\ pc = "deploy"
    /\ C20_Finalised(file.cksum)
    /\ \E i, j \in C20_FinaliseCalls :
           /\ EntryOf(i) = 1
           /\ EntryOf(j) = 2
           /\ j = Len(hist)
           /\ hist[i].res = "Ok"
           /\ hist[j].res = "Ok"

(***************************************************************************)
(* C21.  For any sequence of write_begin and write_block calls on an       *)
(* ImagePayload: remaining never increases and never goes below 0; a       *)
(* write_block after write_begin that succeeds takes the length of the     *)
(* chunk off remaining and returns Complete exactly when remaining is 0    *)
(* after the call, Pending otherwise; a call that fails leaves the payload *)
(* as it was; and once a call has returned Complete no later call returns  *)
(* Pending.                                                                *)
(***************************************************************************)
C21_Step ==
    /\ payload'.remaining <= payload.remaining
    /\ payload'.remaining >= 0
    /\ (payload.dest_file # None /\ result' \in {"Complete", "Pending"}) =>
           /\ payload'.remaining = payload.remaining - Len(buf')
           /\ (result' = "Complete") <=> (payload'.remaining = 0)
           /\ (result' = "Pending") <=> (payload'.remaining > 0)
    /\ result' = "PayloadDeployError" => payload' = payload

C21_Status ==
    [][C21_Step]_vars /\ [](result = "Complete" => [](result # "Pending"))

\* an image of MaxImage bytes was completed by a chunk shorter than the
\* image, and a further write_block of no bytes returned Complete again
C21_Witness ==
    /\ result = "Complete"
    /\ buf = <<>>
    /\ payload.remaining = 0
    /\ payload.image_size = MaxImage
    /\ Len(fs[payload.dest]) = MaxImage

(***************************************************************************)
(* C22.  In deploy_payload a read that returns 0 bytes (write_block has    *)
(* not returned Complete, or the loop would have ended) is the last step   *)
(* of the deployment: it fails with PayloadDeployError, write_block is not *)
(* called again and no further read is made.                               *)
(***************************************************************************)
C22_ExhaustedReader ==
    \A i \in 1..Len(hist) :
        (hist[i].ev = "read" /\ hist[i].n = 0) =>
            /\ i = Len(hist)
            /\ pc = "failed"
            /\ result = "PayloadDeployError"
            /\ \A j \in 1..(i-1) :
                   (hist[j].ev = "write_block" /\ EntryOf(j) = EntryOf(i)) =>
                       hist[j].res = "Pending"

\* the source ended inside the data of a payload of which a block had
\* been written
C22_Witness ==
    /\ pc = "failed"
    /\ Len(hist) > 2
    /\ hist[Len(hist)].ev = "read"
    /\ hist[Len(hist)].n = 0
    /\ hist[Len(hist)].left > 0
    /\ hist[Len(hist) - 1].ev = "write_block"
    /\ hist[Len(hist) - 1].res = "Pending"

(***************************************************************************)
(* Headers written field by field: the magic literal, the check field,     *)
(* the name size and the last byte of the name field are chosen freely;    *)
(* the entry is followed by its data and by the trailer.                   *)
(***************************************************************************)
CRC_MAGIC == <<48, 55, 48, 55, 48, 50>>

NameSizes == {0, 1, 2, NAME_BUF_LEN - 1, NAME_BUF_LEN, NAME_BUF_LEN + 1}

HeaderArchives ==
    {[entries |-> <<>>, descs |-> <<>>, tbl |-> <<"header", 0>>,
      magic |-> m, check |-> ck, namesize |-> ns, last |-> l, filesize |-> fz] :
        m \in {MAGIC_NUMBER, CRC_MAGIC}, ck \in {0, 1}, ns \in NameSizes,
        l \in {0, 98}, fz \in {0, 1}}

HeaderNameBytes(a) == [i \in 1..a.namesize |-> IF i = a.namesize THEN a.last ELSE 97]

HeaderStream(a) ==
    a.magic
        \o SubSeq(cpio_header(HeaderNameBytes(a), a.filesize, a.namesize, a.check),
                  Len(MAGIC_NUMBER) + 1,
                  Len(cpio_header(HeaderNameBytes(a), a.filesize, a.namesize, a.check)))
        \o DataOf(1, a.filesize) \o Zeros(Pad4(a.filesize))
        \o cpio_entry(TRAILER, <<>>)

InitHeader ==
    /\ arch \in HeaderArchives
    /\ stream = HeaderStream(arch)
    /\ short = 0
    /\ count = 0
    /\ pc = "cpio"
    /\ result = ""
    /\ file = NoCpioFile
    /\ buf = <<>>
    /\ got = <<>>
    /\ req = -1
    /\ hist = <<>>
    /\ reader = NoHttpReader
    /\ checksums = EmptyMap
    /\ manifest = <<>>
    /\ payload_iter = None
    /\ payload = NoPayload
    /\ fs = NoFiles

SpecHeader == InitHeader /\ [][NextCpio]_vars

C23_Valid ==
    /\ arch.magic = MAGIC_NUMBER
    /\ arch.check = 0
    /\ arch.namesize <= NAME_BUF_LEN

(***************************************************************************)
(* C23.  For a header whose fields are all present and hexadecimal,        *)
(* read_next_file yields an Entry only if the magic is 070701, the check   *)
(* field is 0 and the name size is at most 256; a header that fails one of *)
(* the three gives FormatError and no Entry; a name size of exactly 256    *)
(* (with the rest valid) is accepted and gives an Entry whose filename     *)
(* has 255 bytes.                                                          *)
(***************************************************************************)
C23_HeaderChecks ==
    hist # <<>> =>
        /\ hist[1].res = "Some" => C23_Valid
        /\ ~C23_Valid =>
               /\ hist[1].res = "Err"
               /\ result = "FormatError"
               /\ pc = "failed"
               /\ file = NoCpioFile
               /\ Len(hist) = 1
        /\ (C23_Valid /\ arch.namesize = NAME_BUF_LEN) =>
               /\ hist[1].res = "Some"
               /\ Len(hist[1].name) = NAME_BUF_LEN - 1

\* a header with 256 name bytes was accepted and its data read
C23_Witness ==
    /\ C23_Valid
    /\ arch.namesize = NAME_BUF_LEN
    /\ arch.filesize = 1
    /\ file.filename = [i \in 1..(NAME_BUF_LEN - 1) |-> 97]
    /\ got = DataOf(1, 1)
    /\ file.remaining = 0

\* a header with 257 name bytes was refused
C23_WitnessLong ==
    /\ arch.magic = MAGIC_NUMBER
    /\ arch.check = 0
    /\ arch.namesize = NAME_BUF_LEN + 1
    /\ result = "FormatError"

(***************************************************************************)
(* C24.  read_next_file requires the name field to end in NUL: a header    *)
(* whose last name byte is not NUL gives no Entry, so that a filename is   *)
(* only ever the name field without its trailing NUL.                      *)
(***************************************************************************)
C24_NulRequired ==
    (hist # <<>> /\ hist[1].res = "Some") =>
        /\ arch.last = 0
        /\ HeaderNameBytes(arch) = hist[1].name \o <<0>>

(***************************************************************************)
(* parse_checksum_file applied to tables of up to MaxLines lines.  Line i  *)
(* names the file <<96 + i>>; its kind decides the rest of the line.       *)
(***************************************************************************)
MaxLines == 2

LineKinds ==
    {"valid", "lower", "empty", "one", "three", "short", "plus", "nine", "over", "nonhex"}

Hex2A == <<48, 48, 48, 48, 48, 48, 50, 65>>

KindLine(kind, i) ==
    IF kind = "valid" THEN <<96 + i, 9>> \o Hex2A
    ELSE IF kind = "lower" THEN <<96 + i, 32>> \o <<48, 48, 48, 48, 48, 48, 50, 97>>
    ELSE IF kind = "empty" THEN <<>>
    ELSE IF kind = "one" THEN <<96 + i>>
    ELSE IF kind = "three" THEN <<96 + i, 32>> \o Hex2A \o <<32, 120>>
    ELSE IF kind = "short" THEN <<96 + i, 32, 50, 65>>
    ELSE IF kind = "plus" THEN <<96 + i, 32, 43>> \o Tail(Hex2A)
    ELSE IF kind = "nine" THEN <<96 + i, 32, 48>> \o Hex2A
    ELSE IF kind = "over" THEN <<96 + i, 32, 49>> \o <<48, 48, 48, 48, 48, 48, 48, 48>>
    ELSE <<96 + i, 32>> \o <<48, 48, 48, 48, 48, 48, 50, 71>>

TableInputs ==
    UNION {{[entries |-> <<>>, descs |-> <<>>, tbl |-> <<"table", n>>,
             kinds |-> ks, nl |-> nl] :
               ks \in [1..n -> LineKinds], nl \in BOOLEAN} : n \in 0..MaxLines}

KindsText(a) ==
    Concat([i \in 1..Len(a.kinds) |->
               KindLine(a.kinds[i], i)
                   \o (IF i = Len(a.kinds) /\ ~a.nl THEN <<>> ELSE <<10>>)])

InitTable ==
    /\ arch \in TableInputs
    /\ buf = KindsText(arch)
    /\ pc = "table"
    /\ result = ""
    /\ checksums = EmptyMap
    /\ stream = <<>>
    /\ short = 0
    /\ count = 0
    /\ file = NoCpioFile
    /\ got = <<>>
    /\ req = -1
    /\ hist = <<>>
    /\ reader = NoHttpReader
    /\ manifest = <<>>
    /\ payload_iter = None
    /\ payload = NoPayload
    /\ fs = NoFiles

\* ChecksumLookup::parse_checksum_file on the text in buf
ParseTable ==
    /\ pc = "table"
    /\ \E parsed \in {parse_checksum_file(buf)} :
           /\ result' = IF parsed.ok THEN "Ok" ELSE "ChecksumFormatError"
           /\ checksums' = parsed.cksums
    /\ pc' = "parsed"
    /\ UNCHANGED <<reader, stream, count, short, manifest, payload_iter, file, payload, buf,
                   fs, arch, hist, got, req>>

NextTable == ParseTable

SpecTable == InitTable /\ [][NextTable]_vars

\* the tokens of each line of the table, and the lines that have any
TableTokens == [i \in 1..Len(lines(buf)) |-> split_whitespace(lines(buf)[i])]
NonEmptyLines == {i \in 1..Len(lines(buf)) : TableTokens[i] # <<>>}

\* exactly eight hexadecimal digits
EightHex(tok) == Len(tok) = 8 /\ \A k \in 1..8 : HexDigit(tok[k]) >= 0

TwoTokens(i) == Len(TableTokens[i]) = 2 /\ EightHex(TableTokens[i][2])

(***************************************************************************)
(* C25.  parse_checksum_file skips empty lines: a table whose non-empty    *)
(* lines are all valid, with empty lines between or after them, parses     *)
(* successfully and yields the map of its non-empty lines.                 *)
(***************************************************************************)
C25_EmptyLinesSkipped ==
    (pc = "parsed" /\ \A i \in NonEmptyLines : TwoTokens(i)) =>
        /\ result = "Ok"
        /\ DOMAIN checksums = {TableTokens[i][1] : i \in NonEmptyLines}
        /\ \A i \in NonEmptyLines :
               checksums[TableTokens[i][1]] = from_str(TableTokens[i][2]).cksum

(***************************************************************************)
(* C26.  parse_checksum_file fails with ChecksumFormatError, and returns   *)
(* no table, whenever some non-empty line is not made of exactly two       *)
(* whitespace-separated tokens or has a second token that is not exactly   *)
(* eight hexadecimal digits.                                               *)
(***************************************************************************)
C26_LineFormat ==
    (pc = "parsed" /\ \E i \in NonEmptyLines : ~TwoTokens(i)) =>
        /\ result = "ChecksumFormatError"
        /\ checksums = EmptyMap

(***************************************************************************)
(* C27.  The running checksum of an Entry has been fed exactly the bytes   *)
(* that the read calls on that Entry returned, in order and once each: it  *)
(* is the fresh checksum updated with their concatenation.  A new Entry    *)
(* starts with a fresh checksum, so no header, name or pad byte and no     *)
(* byte of another entry is in it; and finalise, called when the entry is  *)
(* drained, accepts the checksum of the bytes returned.                    *)
(***************************************************************************)
C27_FedBytes ==
    (hist # <<>> /\ hist[Len(hist)].res = "Some") =>
        /\ file.cksum = update(new_hashable, got)
        /\ got = <<>> => file.cksum = new_hashable
        /\ file.remaining = 0 =>
               /\ CpioFile_finalise(file, finalise(update(new_hashable, got))).res = "Ok"
               /\ CpioFile_finalise(file, finalise(update(new_hashable, got))).file.cksum
                      = finalise(update(new_hashable, got))

\* the second entry of an archive was drained by more than one read, the
\* first having been drained before it
C27_Witness ==
    /\ Len(hist) = 2
    /\ hist[2].res = "Some"
    /\ hist[2].left = 0
    /\ hist[1].n = 0
    /\ file.remaining = 0
    /\ Len(got) = file.filesize
    /\ Len(got) >= 2
    /\ req > 0
    /\ req < Len(got)

(***************************************************************************)
(* Archive::new and deploy over a source that returns at most one line of  *)
(* the checksum table per read (or, with short = 0, all that is asked).    *)
(***************************************************************************)
TableLineLen == Len(checksum_line(MANIFEST_FILENAME, finalise(new_hashable)))

InitShort ==
    /\ arch \in Archives
    /\ stream = Delivered(arch, build_archive(arch))
    /\ short \in {0, TableLineLen}
    /\ count = 0
    /\ pc = "read_checksum_file"
    /\ result = ""
    /\ checksums = EmptyMap
    /\ manifest = <<>>
    /\ payload_iter = None
    /\ file = NoCpioFile
    /\ payload = NoPayload
    /\ buf = <<>>
    /\ fs = NoFiles
    /\ hist = <<>>
    /\ reader = NoHttpReader
    /\ got = <<>>
    /\ req = -1

SpecShort == InitShort /\ [][Next]_vars

(***************************************************************************)
(* C28.  Archive::new drains each header entry before it asks for the next *)
(* one: whenever read_next_file is called after the checksums entry or the *)
(* manifest.jsonc entry was opened, that entry has remaining = 0 and all   *)
(* of its bytes were handed to the parser; this for every byte source, a   *)
(* source that returns fewer bytes than requested included.                *)
(***************************************************************************)
C28_HeaderDrained ==
    \A i \in 2..Len(hist) :
        (hist[i].ev = "read_next_file" /\ i <= 3 /\ hist[i - 1].res = "Some") =>
            hist[i].left = 0

(***************************************************************************)
(* C29.  While Archive::deploy runs deploy_payload on an entry, the        *)
(* remaining count of the entry equals the remaining count of the payload  *)
(* before every read (the block read and not yet written accounts for the  *)
(* difference in between); so no write_block fails with the overflow       *)
(* error, and whenever finalise is reached the entry has remaining = 0 and *)
(* the assertion holds.                                                    *)
(***************************************************************************)
C29_Lockstep ==
    /\ pc \in {"write_begin", "read_block"} => file.remaining = payload.remaining
    /\ pc = "write_block" => file.remaining + Len(buf) = payload.remaining
    /\ pc = "get_checksum" => (file.remaining = 0 /\ payload.remaining = 0)
    /\ \A i \in 1..Len(hist) :
           /\ hist[i].ev = "write_block" => hist[i].res \in {"Complete", "Pending"}
           /\ hist[i].ev = "finalise" => (hist[i].left = 0 /\ hist[i].res # "Panic")

\* a payload longer than a block was deployed in two blocks, the second
\* shorter than the first, and its checksum verified
C29_Witness ==
    /\ pc = "done"
    /\ \E i \in 1..Len(hist) :
           /\ hist[i].ev = "finalise"
           /\ hist[i].res = "Ok"
           /\ \E j \in 1..(i - 1) :
                  hist[j].ev = "write_block" /\ hist[j].res = "Pending"
                      /\ EntryOf(j) = EntryOf(i)

(***************************************************************************)
(* Archive::new followed by deploy as a program that keeps running: the    *)
(* code is sequential and a read on a finite stream returns, so a step     *)
(* that can be taken is taken.  The streams are those of Init and a        *)
(* stream whose first header declares a name of 0 bytes.                   *)
(***************************************************************************)
ZeroNameArchives == {[entries |-> <<>>, descs |-> <<>>, tbl |-> <<"zero_name", 0>>]}

ZeroNameStream == cpio_header(<<>>, 0, 0, 0) \o cpio_entry(TRAILER, <<>>)

InitLive ==
    /\ arch \in Archives \cup ZeroNameArchives
    /\ stream = IF arch \in ZeroNameArchives THEN ZeroNameStream
                ELSE Delivered(arch, build_archive(arch))
    /\ short \in {0, ShortLen}
    /\ count = 0
    /\ pc = "read_checksum_file"
    /\ result = ""
    /\ checksums = EmptyMap
    /\ manifest = <<>>
    /\ payload_iter = None
    /\ file = NoCpioFile
    /\ payload = NoPayload
    /\ buf = <<>>
    /\ fs = NoFiles
    /\ hist = <<>>
    /\ reader = NoHttpReader
    /\ got = <<>>
    /\ req = -1

\* weak fairness of Next, written with the enabling condition of Next: every
\* action of Next is guarded by its value of pc alone and none is guarded by
\* "done" or "failed", so Next is enabled exactly while pc is neither
Terminated == pc \in {"done", "failed"}

Fairness == []<>Terminated \/ []<><<Next>>_vars

SpecLive == InitLive /\ [][Next]_vars /\ Fairness

\* deploy_payload: a pass of the loop takes bytes off the entry or returns;
\* deploy: a pass of the loop consumes a header or returns
C30_Progress ==
    /\ pc = "read_block" => (file'.remaining < file.remaining \/ pc' = "failed")
    /\ pc = "deploy" => (count' > count \/ Terminated')

(***************************************************************************)
(* C30.  For every finite byte stream, Archive::new followed by deploy     *)
(* terminates with Ok or with an Err: every pass of the deploy_payload     *)
(* loop takes bytes off the entry or returns, every pass of the deploy     *)
(* loop consumes a header or returns, and the run ends at the end of       *)
(* deploy or at a returned error, never in a panic.                        *)
(***************************************************************************)
C30_Terminates ==
    [][C30_Progress]_vars /\ [](Terminated => result # "Panic")

\* termination alone, under fairness
C30_Ends == <>Terminated

(***************************************************************************)
(* C31.  read_next_file never panics on the contents of a header: for      *)
(* every combination of field values it returns Some(entry), None or an    *)
(* error; a header with a name size of 0 gives an error; and every Entry   *)
(* issued has a non-empty filename.                                        *)
(***************************************************************************)
C31_NoPanic ==
    \A i \in 1..Len(hist) :
        hist[i].ev = "read_next_file" =>
            /\ hist[i].res \in {"Some", "None", "Err"}
            /\ hist[i].res = "Some" => hist[i].name # <<>>
            /\ (i = 1 /\ arch.namesize = 0) => hist[i].res = "Err"

(***************************************************************************)
(* C32.  A payload entry of declared size 0 that matches its manifest      *)
(* descriptor deploys successfully: the run never fails, no write_block    *)
(* is called with data, and at the end the result is Ok, the destination   *)
(* exists and is empty, and the checksum of the empty input was verified   *)
(* against the table.                                                      *)
(***************************************************************************)
C32_Case ==
    /\ short = 0
    /\ Len(arch.entries) = 1
    /\ arch.entries[1][2] = 0
    /\ arch.descs = << <<T_image, arch.entries[1][1]>> >>
    /\ arch.tbl[1] = "ok"

C32_EmptyPayload ==
    C32_Case =>
        /\ pc # "failed"
        /\ \A i \in 1..Len(hist) : hist[i].ev = "write_block" => hist[i].n = 0
        /\ pc = "done" =>
               /\ result = "Ok"
               /\ fs = [p \in {DestOf(1)} |-> <<>>]
               /\ \E i \in 1..Len(hist) : hist[i].ev = "finalise" /\ hist[i].res = "Ok"

(***************************************************************************)
(* C33.  The two header entries are used without integrity verification:   *)
(* Archive::new never finalises the checksum of the checksums entry or of  *)
(* the manifest.jsonc entry (every finalise belongs to a payload entry),   *)
(* and an archive whose table records for manifest.jsonc a checksum that   *)
(* is not the checksum of its manifest is accepted all the same: the       *)
(* manifest is parsed, drives the deployment, and the run ends with Ok and *)
(* the payloads written.                                                   *)
(***************************************************************************)
C33_Case ==
    /\ short = 0
    /\ arch.tbl[1] = "stale_manifest"
    /\ arch.descs = ImageDescs([i \in 1..Len(arch.entries) |-> arch.entries[i][1]])
    /\ \A i \in 1..Len(arch.entries) : arch.entries[i][2] > 0
    /\ \A i, j \in 1..Len(arch.entries) : arch.entries[i][1] = arch.entries[j][1] => i = j

C33_Recorded == get_checksum(checksums, MANIFEST_FILENAME)

C33_Actual == finalise(update(new_hashable, ManifestOf(arch).data))

C33_HeadersUnverified ==
    /\ \A i \in 1..Len(hist) : hist[i].ev = "finalise" => EntryOf(i) >= 1
    /\ pc \in {"read_checksum_file", "read_manifest"} => file.cksum.final_value = None
    /\ C33_Case =>
           /\ pc # "failed"
           /\ pc # "read_checksum_file" =>
                  (C33_Recorded # None /\ C33_Recorded[1] # C33_Actual)
           /\ pc \notin {"read_checksum_file", "read_manifest"} =>
                  manifest = parse_manifest(ManifestOf(arch).data).payloads
           /\ pc = "done" =>
                  /\ result = "Ok"
                  /\ fs = [p \in {DestOf(i) : i \in 1..Len(arch.entries)} |->
                              DataOf(CHOOSE i \in 1..Len(arch.entries) : DestOf(i) = p,
                                     arch.entries[CHOOSE i \in 1..Len(arch.entries) :
                                                      DestOf(i) = p][2])]

\* an archive with a stale manifest line was deployed to the end, two
\* payloads written
C33_Witness ==
    /\ C33_Case
    /\ pc = "done"
    /\ result = "Ok"
    /\ Len(arch.entries) = 2
    /\ C33_Recorded[1] # C33_Actual
    /\ fs[DestOf(2)] = DataOf(2, arch.entries[2][2])

(***************************************************************************)
(* C34.  read_bytes on a ChunkBuffer that holds unread bytes copies        *)
(* exactly min(dest.len(), number of unread bytes) bytes starting at       *)
(* read_pos, never indexes beyond the buffered data and keeps              *)
(* read_pos <= buf.len(): a buffer read in part and then read with a       *)
(* larger destination returns the unread remainder.                        *)
(***************************************************************************)
C34_Step ==
    (pc = "http" /\ ChunkBuffer_len(reader) > 0) =>
        /\ result' = "Ok"
        /\ buf' = SubSeq(reader.buf, reader.read_pos + 1,
                         reader.read_pos + Min(req', ChunkBuffer_len(reader)))
        /\ reader'.buf = reader.buf
        /\ reader'.read_pos = reader.read_pos + Len(buf')
        /\ reader'.read_pos <= Len(reader'.buf)

C34_ReadBytes == [][C34_Step]_vars

====
